---- MODULE Spec2Model ----
(***************************************************************************)
(* Model of the portfolio service (src/portfolio_service/main.py): the     *)
(* two price adapters with their module-level cache, the price resolver,   *)
(* the valuation endpoint and the historical reconstruction endpoint;      *)
(* of the analytics service (src/analytics_service/main.py); and of the    *)
(* Django application (src/core) with its script migrate_to_binance.py.    *)
(*                                                                         *)
(* Conventions.  Strings that the code inspects (coin identifiers) are     *)
(* sequences of one-character strings, so upper() and endswith() are       *)
(* computed.  Optional values are sequences of length 0 (None) or 1.       *)
(* The clock is in milliseconds.  Money is in thousandths of a dollar:     *)
(* amounts are in tenths of a unit and prices in cents, so that            *)
(* round(x, 2) is a real rounding (exact decimal arithmetic stands for     *)
(* the floats of the code).                                                *)
(***************************************************************************)
EXTENDS Integers, Sequences, FiniteSets, TLC

VARIABLES
    now,          \* datetime.now(), in milliseconds since start
    price_cache,  \* main.py:33, key -> [data, timestamp]
    tasks,        \* coroutines of the request in flight (asyncio.gather)
    req,          \* the request in flight: kind and holdings
    response,     \* the response of the last request that returned
    prev,         \* record of the last finished /price/{coin_id} resolution
    nreq,         \* requests started so far
    nadv,         \* clock advances so far
    hist,         \* the /portfolio/history request: inputs, locals, response
    history_cache,      \* main.py:34
    symbol_info_cache,  \* main.py:35, key -> [data, timestamp]
    symbols,      \* the GET /binance/symbols request: position, response
    klines,       \* a call of fetch_binance_history: window, interval, candles
    metrics,      \* a call of calculate_advanced_metrics: trades, outcome
    trade,        \* core/models.py: a Trade instance and its stored row
    summary,      \* core/views.py: a portfolio_summary request
    migration     \* migrate_to_binance.py: the asset rows and the runs

priceVars == <<now, price_cache, tasks, req, response, prev, nreq, nadv>>
\* what the history endpoint never touches, beside priceVars
\* the state of the Django application and of its migration script
djangoVars == <<trade, summary, migration>>
auxVars == <<history_cache, symbol_info_cache, symbols, klines, metrics, djangoVars>>
\* what the price and valuation endpoints never touch
nonPriceVars == <<hist, auxVars>>

(***************************** bounds ***************************************)
MaxRequests == 2
MaxAdvances == 1
MaxBatch == 2

(***************************** constants ************************************)
PRICE_CACHE_DURATION == 60
GECKO_PRICE_CACHE_DURATION == 300
GECKO_PRICE_SLEEP_MS == 1500
HISTORY_GECKO_SLEEP_MS == 2000
SECONDS_PER_DAY == 86400
HISTORY_EPSILON == 10             \* 0.01 in thousandths
MS_PER_SECOND == 1000

None == <<>>
Some(v) == <<v>>
IsNone(o) == Len(o) = 0
Val(o) == o[1]

(***************************** identifiers **********************************)
XUSDT == <<"X", "U", "S", "D", "T">>
xbusd == <<"x", "b", "u", "s", "d">>
btc == <<"b", "t", "c">>
CoinIds == {XUSDT, xbusd, btc}
\* an identifier that holds a quote currency but does not end in it
usdtx == <<"u", "s", "d", "t", "x">>

\* str.upper() on the characters the identifiers are made of
UpperChar(c) ==
    CASE c = "b" -> "B" [] c = "c" -> "C" [] c = "d" -> "D" [] c = "s" -> "S"
      [] c = "t" -> "T" [] c = "u" -> "U" [] c = "x" -> "X" [] OTHER -> c

\* str.lower() on the same characters (symbols are given in lower case)
LowerChar(c) ==
    CASE c = "B" -> "b" [] c = "C" -> "c" [] c = "D" -> "d" [] c = "S" -> "s"
      [] c = "T" -> "t" [] c = "U" -> "u" [] c = "X" -> "x" [] OTHER -> c

Upper(s) == [i \in 1..Len(s) |-> UpperChar(s[i])]

EndsWith(s, suffix) ==
    /\ Len(s) >= Len(suffix)
    /\ SubSeq(s, Len(s) - Len(suffix) + 1, Len(s)) = suffix

USDT == <<"U", "S", "D", "T">>
BUSD == <<"B", "U", "S", "D">>

\* a classifier that sends every identifier to Binance first
is_binance_symbol_always(coin_id) == TRUE

\* main.py:59-61
is_binance_symbol(coin_id) ==
    EndsWith(Upper(coin_id), USDT) \/ EndsWith(Upper(coin_id), BUSD)

(***************************** cache ****************************************)
BinanceKey(symbol) == <<"binance_price_">> \o symbol
GeckoKey(coin_id) == <<"gecko_price_">> \o coin_id

\* timedelta.seconds: the seconds component of a non-negative timedelta
\* (whole seconds, days dropped)
TimedeltaSeconds(delta_ms) == (delta_ms \div MS_PER_SECOND) % SECONDS_PER_DAY

\* a cache whose entries are never served
CacheFreshNever(key, ttl) == FALSE

\* main.py:69-72 and 109-112: the entry is served when this holds
CacheFresh(key, ttl) ==
    /\ key \in DOMAIN price_cache
    /\ TimedeltaSeconds(now - price_cache[key].timestamp) < ttl

\* a cache that keeps the entry a key already has (dict.setdefault)
CachePutKeepFirst(cache, key, data, ts) ==
    [k \in DOMAIN cache \cup {key} |->
        IF k \in DOMAIN cache THEN cache[k] ELSE [data |-> data, timestamp |-> ts]]

\* main.py:94-97 and 145-148: price_cache[cache_key] = {...}
CachePut(cache, key, data, ts) ==
    [k \in DOMAIN cache \cup {key} |->
        IF k = key THEN [data |-> data, timestamp |-> ts] ELSE cache[k]]

\* a failed fetch that drops the entry of its key
CacheOnFailureEvict(cache, key) ==
    [k \in DOMAIN cache \ {key} |-> cache[k]]

\* main.py:99-103 and 150-154: the failure paths return None and leave
\* price_cache as it is
CacheOnFailure(cache, key) == cache

(***************************** upstream responses ***************************)
Prices == {25, 3000000}          \* unit prices in cents: 0.25 and 30000.00
Changes == {2346}                \* 24h change in thousandths of a percent

\* what the ticker endpoint (main.py:77-83) or the simple-price endpoint
\* (main.py:118-135) can answer: a 200 with a price, a 200 without the
\* requested id (CoinGecko only), another status, or a raised exception
OkOutcomes == {[kind |-> "ok", price |-> p, change |-> c] : p \in Prices, c \in Changes}
FailOutcome(k) == [kind |-> k, price |-> 0, change |-> 0]
\* main.py:80 and 127: a 429 is one of the statuses that are not 200
TooManyRequests == FailOutcome("http429")
Record429(t, out, adapter) ==
    IF out = TooManyRequests THEN [t EXCEPT !.got429 = Append(@, adapter)] ELSE t
BinanceOutcomes == OkOutcomes \cup {FailOutcome("non200"), FailOutcome("exception")}
GeckoOutcomes ==
    OkOutcomes \cup
    {FailOutcome("non200"), FailOutcome("exception"), FailOutcome("missing")}

NoData == [price_usd |-> 0, change_24h |-> 0, volume_24h |-> 0,
           source |-> "", symbol |-> <<>>]

(***************************** price resolution *****************************)
\* A coroutine running get_crypto_price_smart(coin_id).  pc is the await it
\* is suspended at; trace lists what it did, ncalls the HTTP calls it issued,
\* gecko_call_at and binance_call_at the times of its calls to CoinGecko
\* and to Binance, got429 the adapters
\* whose call was answered 429.
NewTask(coin_id) ==
    [coin_id |-> coin_id, pc |-> "init", status |-> "pending", data |-> NoData,
     trace |-> <<>>, ncalls |-> 0, started_at |-> now, wake |-> 0,
     hit_age |-> None, cached_at |-> None, gecko_call_at |-> None,
     binance_call_at |-> None, got429 |-> <<>>]

Finish(t, status, data, events) ==
    [t EXCEPT !.pc = "done", !.status = status, !.data = data,
              !.trace = @ \o events]

\* main.py:105-116: get_coingecko_price up to its first await
get_coingecko_price_enter(t) ==
    LET key == GeckoKey(t.coin_id) IN
    IF CacheFresh(key, GECKO_PRICE_CACHE_DURATION)
    THEN [Finish(t, "ok", price_cache[key].data, <<"fallback", "fallback_hit">>)
            EXCEPT !.hit_age = Some(now - price_cache[key].timestamp),
                   !.cached_at = Some(price_cache[key].timestamp)]
    ELSE [t EXCEPT !.pc = "gecko_sleep", !.wake = now + GECKO_PRICE_SLEEP_MS,
                   !.trace = @ \o <<"fallback">>]

\* a Primary adapter that waits the Fallback interval before its call
get_binance_price_enter_throttled(t) ==
    LET key == BinanceKey(Upper(t.coin_id)) IN
    IF CacheFresh(key, PRICE_CACHE_DURATION)
    THEN [Finish(t, "ok", price_cache[key].data, <<"primary", "primary_hit">>)
            EXCEPT !.hit_age = Some(now - price_cache[key].timestamp),
                   !.cached_at = Some(price_cache[key].timestamp)]
    ELSE [t EXCEPT !.pc = "binance_http", !.ncalls = @ + 1,
                   !.binance_call_at = Some(now + GECKO_PRICE_SLEEP_MS),
                   !.trace = @ \o <<"primary", "primary_http">>]

\* main.py:63-78: get_binance_price up to its first await, the ticker call
\* being sent as soon as the cache has missed
get_binance_price_enter(t) ==
    LET key == BinanceKey(Upper(t.coin_id)) IN
    IF CacheFresh(key, PRICE_CACHE_DURATION)
    THEN [Finish(t, "ok", price_cache[key].data, <<"primary", "primary_hit">>)
            EXCEPT !.hit_age = Some(now - price_cache[key].timestamp),
                   !.cached_at = Some(price_cache[key].timestamp)]
    ELSE [t EXCEPT !.pc = "binance_http", !.ncalls = @ + 1,
                   !.binance_call_at = Some(now),
                   !.trace = @ \o <<"primary", "primary_http">>]

\* the resolver with the two adapters tried in the opposite order
get_crypto_price_smart_enter_fallback_first(coin_id) ==
    get_coingecko_price_enter(NewTask(coin_id))

\* main.py:156-166: get_crypto_price_smart up to its first await
get_crypto_price_smart_enter(coin_id) ==
    IF is_binance_symbol(coin_id)
    THEN get_binance_price_enter(NewTask(coin_id))
    ELSE get_coingecko_price_enter(NewTask(coin_id))

BinanceData(t, out) ==
    [price_usd |-> out.price, change_24h |-> out.change, volume_24h |-> 0,
     source |-> "binance", symbol |-> Upper(t.coin_id)]

GeckoData(t, out) ==
    [price_usd |-> out.price, change_24h |-> out.change, volume_24h |-> 0,
     source |-> "coingecko", symbol |-> t.coin_id]

\* main.py:78-103 then 161-166: the ticker call returns
BinanceResponse(i, out) ==
    /\ i \in DOMAIN tasks
    /\ tasks[i].pc = "binance_http"
    /\ IF out.kind = "ok"
       THEN /\ price_cache' = CachePut(price_cache, BinanceKey(Upper(tasks[i].coin_id)),
                                       BinanceData(tasks[i], out), now)
            /\ tasks' = [tasks EXCEPT ![i] =
                  [Finish(@, "ok", BinanceData(@, out), <<"primary_ok">>)
                     EXCEPT !.cached_at = Some(now)]]
       ELSE /\ price_cache' = CacheOnFailure(price_cache,
                                               BinanceKey(Upper(tasks[i].coin_id)))
            /\ tasks' = [tasks EXCEPT ![i] =
                  get_coingecko_price_enter(
                      [Record429(@, out, "primary") EXCEPT
                          !.trace = @ \o <<"primary_fail">>])]
    /\ UNCHANGED <<now, req, response, prev, nreq, nadv>>
    /\ UNCHANGED nonPriceVars

\* main.py:116-125: asyncio.sleep(1.5) is over and the request is sent
GeckoWake(i) ==
    /\ i \in DOMAIN tasks
    /\ tasks[i].pc = "gecko_sleep"
    /\ now' = IF now < tasks[i].wake THEN tasks[i].wake ELSE now
    /\ tasks' = [tasks EXCEPT ![i] =
          [@ EXCEPT !.pc = "gecko_http", !.ncalls = @ + 1,
                    !.gecko_call_at = Some(now'),
                    !.trace = @ \o <<"fallback_http">>]]
    /\ UNCHANGED <<price_cache, req, response, prev, nreq, nadv>>
    /\ UNCHANGED nonPriceVars

\* main.py:125-154 then 166-171: the simple-price call returns
GeckoResponse(i, out) ==
    /\ i \in DOMAIN tasks
    /\ tasks[i].pc = "gecko_http"
    /\ IF out.kind = "ok"
       THEN /\ price_cache' = CachePut(price_cache, GeckoKey(tasks[i].coin_id),
                                       GeckoData(tasks[i], out), now)
            /\ tasks' = [tasks EXCEPT ![i] =
                  [Finish(@, "ok", GeckoData(@, out), <<"fallback_ok">>)
                     EXCEPT !.cached_at = Some(now)]]
       ELSE /\ price_cache' = CacheOnFailure(price_cache, GeckoKey(tasks[i].coin_id))
            /\ tasks' = [tasks EXCEPT ![i] =
                  Finish(Record429(@, out, "fallback"), "error", NoData,
                         <<"fallback_fail", "unavailable">>)]
    /\ UNCHANGED <<now, req, response, prev, nreq, nadv>>
    /\ UNCHANGED nonPriceVars

(***************************** valuation ***********************************)
\* Units: amount in tenths, prices in cents, so amount * price and the
\* sums are in thousandths of a dollar; reported money is in cents and
\* reported percentages in hundredths of a percent.

\* floor(n * 10^k / d) and the remainder, by long division (d > 0)
RECURSIVE ScaledQuot(_, _, _)
ScaledQuot(n, d, k) ==
    IF k = 0
    THEN [q |-> n \div d, r |-> n % d]
    ELSE LET p == ScaledQuot(n, d, k - 1) IN
         [q |-> p.q * 10 + (p.r * 10) \div d, r |-> (p.r * 10) % d]

\* n * 10^k / d rounded to the nearest integer, ties to the even one:
\* what round() does to a value that is exactly representable
RoundQuot(n, d, k) ==
    LET p == ScaledQuot(n, d, k) IN
    IF 2 * p.r < d THEN p.q
    ELSE IF 2 * p.r > d THEN p.q + 1
    ELSE IF p.q % 2 = 0 THEN p.q ELSE p.q + 1

\* round(x, 2) of an amount of money x in thousandths: the result in cents
Round2(x) == RoundQuot(x, 10, 0)

\* round(x, 2) of a percentage in thousandths of a percent
Round2Pct(x) == RoundQuot(x, 10, 0)

\* Python truthiness of an Optional[float]: None and 0.0 are both false
Truthy(o) == ~IsNone(o) /\ Val(o) # 0

\* current value computed from the purchase price instead of the live price
CurrentValuePurchase(asset, price_data) ==
    asset.amount * (IF IsNone(asset.purchase_price) THEN 0 ELSE Val(asset.purchase_price))

\* main.py:222-223
CurrentValue(asset, price_data) == asset.amount * price_data.price_usd

\* main.py:226
Cost(asset) == asset.amount * Val(asset.purchase_price)

\* pnl percent without the guard on the cost
PnlPercentRoundedNoGuard(pnl, cost) ==
    IF cost # 0 THEN RoundQuot(pnl, cost, 4) ELSE 100

\* main.py:228 / 251 with the round(..., 2) of 244 / 259:
\* (pnl / cost * 100) if cost > 0 else 0, in hundredths of a percent
PnlPercentRounded(pnl, cost) ==
    IF cost > 0 THEN RoundQuot(pnl, cost, 4) ELSE 0

IsException(t) == t.status = "error"

\* main.py:211-218: the entry of a holding whose price task raised
ErrorEntry(asset, t) ==
    [symbol |-> Upper(asset.symbol), coin_id |-> asset.coin_id,
     amount |-> asset.amount, error |-> Some("Price unavailable"),
     current_price |-> None, current_value |-> None,
     purchase_price |-> None, cost |-> None, pnl |-> None,
     pnl_percent |-> None, change_24h |-> None, source |-> None]

\* main.py:221-248: the entry of a holding whose price resolved
ValuedEntry(asset, t) ==
    LET current_value == CurrentValue(asset, t.data)
        has_pp == Truthy(asset.purchase_price)
        cost == IF has_pp THEN Cost(asset) ELSE 0
        pnl == IF has_pp THEN current_value - cost ELSE 0
    IN  [symbol |-> Upper(asset.symbol), coin_id |-> asset.coin_id,
         amount |-> asset.amount, error |-> None,
         current_price |-> Some(t.data.price_usd),
         current_value |-> Some(Round2(current_value)),
         purchase_price |-> asset.purchase_price,
         cost |-> IF has_pp THEN Some(Round2(cost)) ELSE None,
         pnl |-> IF has_pp THEN Some(Round2(pnl)) ELSE None,
         pnl_percent |-> IF has_pp THEN Some(PnlPercentRounded(pnl, cost)) ELSE None,
         change_24h |-> Some(Round2Pct(t.data.change_24h)),
         source |-> Some(t.data.source)]

\* main.py:205-248: enriched_assets, one entry per holding in input order
EnrichedAssets(assets, results) ==
    [i \in 1..Len(assets) |->
        IF IsException(results[i]) THEN ErrorEntry(assets[i], results[i])
        ELSE ValuedEntry(assets[i], results[i])]

RECURSIVE SumOver(_, _)
SumOver(f, n) == IF n = 0 THEN 0 ELSE SumOver(f, n - 1) + f[n]

\* the total that only counts the holdings that have a purchase price
TotalValuePricedOnly(assets, results) ==
    SumOver([i \in 1..Len(assets) |->
                IF IsException(results[i]) \/ ~Truthy(assets[i].purchase_price) THEN 0
                ELSE CurrentValue(assets[i], results[i].data)], Len(assets))

\* main.py:203, 233: total_value, in thousandths
TotalValue(assets, results) ==
    SumOver([i \in 1..Len(assets) |->
                IF IsException(results[i]) THEN 0
                ELSE CurrentValue(assets[i], results[i].data)], Len(assets))

\* main.py:204, 229: total_cost, in thousandths
TotalCost(assets, results) ==
    SumOver([i \in 1..Len(assets) |->
                IF IsException(results[i]) \/ ~Truthy(assets[i].purchase_price) THEN 0
                ELSE Cost(assets[i])], Len(assets))

\* main.py:250: total_pnl, in thousandths
TotalPnl(assets, results) ==
    IF TotalCost(assets, results) > 0
    THEN TotalValue(assets, results) - TotalCost(assets, results)
    ELSE 0

EmptySummary ==
    [total_value_usd |-> 0, total_cost |-> 0, total_pnl |-> 0,
     total_pnl_percent |-> 0, assets |-> <<>>]

\* main.py:187-261: the PortfolioSummary that calculate_portfolio returns
PortfolioSummary(assets, results) ==
    IF Len(assets) = 0 THEN EmptySummary
    ELSE [total_value_usd |-> Round2(TotalValue(assets, results)),
          total_cost |-> Round2(TotalCost(assets, results)),
          total_pnl |-> Round2(TotalPnl(assets, results)),
          total_pnl_percent |->
              PnlPercentRounded(TotalPnl(assets, results), TotalCost(assets, results)),
          assets |-> EnrichedAssets(assets, results)]

(***************************** history: algorithm ***************************)
\* A price point is <<timestamp in ms, unit price in cents>>.

\* sorted(prices, key=lambda x: x[0]): a stable insertion sort
RECURSIVE InsertByTs(_, _)
InsertByTs(sorted, point) ==
    IF sorted = <<>> THEN <<point>>
    ELSE IF Head(sorted)[1] <= point[1]
         THEN <<Head(sorted)>> \o InsertByTs(Tail(sorted), point)
         ELSE <<point>> \o sorted

RECURSIVE SortByTs(_)
SortByTs(prices) ==
    IF prices = <<>> THEN <<>>
    ELSE InsertByTs(SortByTs(SubSeq(prices, 1, Len(prices) - 1)), prices[Len(prices)])

\* sorted(list(a_set_of_ints))
RECURSIVE SortedSeqOf(_)
SortedSeqOf(S) ==
    IF S = {} THEN <<>>
    ELSE LET m == CHOOSE x \in S : \A y \in S : x <= y
         IN  <<m>> \o SortedSeqOf(S \ {m})

\* main.py:263-304 / 306-332: what a history fetch returns, None included
HistoryFail == [kind |-> "fail", prices |-> <<>>]
HistoryOk(prices) == [kind |-> "ok", prices |-> prices]

\* a fetch that gives up when the Primary history call returns no points
fetch_coin_history_no_failover(asset, bout, gout) ==
    IF is_binance_symbol(asset.coin_id)
    THEN IF bout.kind = "ok" /\ Len(bout.prices) > 0
         THEN Some([coin_id |-> asset.coin_id, symbol |-> asset.symbol,
                    amount |-> asset.amount, prices |-> bout.prices,
                    source |-> "binance"])
         ELSE None
    ELSE IF gout.kind = "ok" /\ Len(gout.prices) > 0
         THEN Some([coin_id |-> asset.coin_id, symbol |-> asset.symbol,
                    amount |-> asset.amount, prices |-> gout.prices,
                    source |-> "coingecko"])
         ELSE None

\* main.py:334-360: bout and gout are what the Binance and the CoinGecko
\* history calls answer when they are made
fetch_coin_history_smart(asset, bout, gout) ==
    IF is_binance_symbol(asset.coin_id) /\ bout.kind = "ok" /\ Len(bout.prices) > 0
    THEN Some([coin_id |-> asset.coin_id, symbol |-> asset.symbol,
               amount |-> asset.amount, prices |-> bout.prices, source |-> "binance"])
    ELSE IF gout.kind = "ok" /\ Len(gout.prices) > 0
         THEN Some([coin_id |-> asset.coin_id, symbol |-> asset.symbol,
                    amount |-> asset.amount, prices |-> gout.prices,
                    source |-> "coingecko"])
         ELSE None

\* main.py:338-350: the providers fetch_coin_history_smart calls, in order
HistoryCalls(asset, bout) ==
    IF is_binance_symbol(asset.coin_id)
    THEN IF bout.kind = "ok" /\ Len(bout.prices) > 0
         THEN <<"binance">> ELSE <<"binance", "coingecko">>
    ELSE <<"coingecko">>

\* main.py:291-297 and 319-328: the number of points each of these calls
\* returned, 0 for a call that failed
HistoryAnswers(asset, bout, gout) ==
    LET calls == HistoryCalls(asset, bout)
        Points(out) == IF out.kind = "ok" THEN Len(out.prices) ELSE 0
    IN  [n \in 1..Len(calls) |->
            IF calls[n] = "binance" THEN Points(bout) ELSE Points(gout)]

\* main.py:263-300 and 306-312: the sleep before each of these calls, in
\* milliseconds: fetch_binance_history sends its request at once,
\* fetch_coingecko_history after asyncio.sleep(2)
HistoryCallDelays(asset, bout) ==
    LET calls == HistoryCalls(asset, bout) IN
    [n \in 1..Len(calls) |->
        IF calls[n] = "binance" THEN 0 ELSE HISTORY_GECKO_SLEEP_MS]

\* a gather that returns the results in the order the coroutines finished
GatherSlotCompletion(i, fetched) == Cardinality(fetched) + 1

\* main.py:376: asyncio.gather returns the result of the i-th awaitable at
\* position i, whichever finished first
GatherSlot(i, fetched) == i

\* main.py:377: r and r['prices']
Fetched(result) == ~IsNone(result) /\ Len(Val(result).prices) > 0

\* main.py:377: history_data, each element with the input position it has
HistoryData(results) ==
    LET kept == SelectSeq([i \in 1..Len(results) |-> i], LAMBDA i : Fetched(results[i]))
    IN  [k \in 1..Len(kept) |->
            [coin_id |-> Val(results[kept[k]]).coin_id,
             amount |-> Val(results[kept[k]]).amount,
             prices |-> Val(results[kept[k]]).prices,
             source |-> Val(results[kept[k]]).source,
             idx |-> kept[k]]]

\* the position of the last element of history_data with this coin_id: a
\* dict built in list order keeps the value written last for a key
LastOf(history_data, aid) ==
    CHOOSE j \in 1..Len(history_data) :
        /\ history_data[j].coin_id = aid
        /\ \A m \in 1..Len(history_data) : history_data[m].coin_id = aid => m <= j

CoinIdsOf(history_data) == {history_data[j].coin_id : j \in 1..Len(history_data)}

\* main.py:395: int(asset.purchase_date.timestamp() * 1000), the purchase
\* date being in whole seconds
PurchaseTs(asset) == Val(asset.purchase_date) * MS_PER_SECOND

\* every holding owned since the beginning of time
AssetPurchaseTimesEpoch(assets, history_data) ==
    [aid \in CoinIdsOf(history_data) |-> 0]

\* main.py:387-401: asset_purchase_times, keyed by coin_id
AssetPurchaseTimes(assets, history_data) ==
    [aid \in CoinIdsOf(history_data) |->
        LET a == assets[history_data[LastOf(history_data, aid)].idx] IN
        IF IsNone(a.purchase_date) THEN 0 ELSE PurchaseTs(a)]

\* main.py:390-401: the writes the loop makes into asset_purchase_times, in
\* order: at position i the key is the coin_id of results[i] and the value is
\* taken from assets[i]
PurchaseWrites(assets, results) ==
    LET kept == SelectSeq([i \in 1..Len(results) |-> i], LAMBDA i : Fetched(results[i]))
    IN  [n \in 1..Len(kept) |->
            [idx |-> kept[n],
             coin_id |-> Val(results[kept[n]]).coin_id,
             purchase_ts |-> IF IsNone(assets[kept[n]].purchase_date) THEN 0
                             ELSE PurchaseTs(assets[kept[n]])]]

\* the timestamps of the series one after the other, as they come
RECURSIVE TimestampsInOrder(_)
TimestampsInOrder(history_data) ==
    IF history_data = <<>> THEN <<>>
    ELSE [n \in 1..Len(Head(history_data).prices) |-> Head(history_data).prices[n][1]]
         \o TimestampsInOrder(Tail(history_data))

\* main.py:407-415: sorted_timestamps
SortedTimestamps(history_data) ==
    SortedSeqOf(UNION {{history_data[j].prices[n][1] : n \in 1..Len(history_data[j].prices)} :
                          j \in 1..Len(history_data)})

\* main.py:420: latest_prices, keyed by coin_id
LatestPricesInit(history_data) == [aid \in CoinIdsOf(history_data) |-> None]

\* main.py:421-427: asset_iters with current_points, keyed by coin_id: the
\* points not consumed yet, the first of them being current_points[aid]
PointsInit(history_data) ==
    [aid \in CoinIdsOf(history_data) |->
        SortByTs(history_data[LastOf(history_data, aid)].prices)]

\* main.py:442-444: the while loop that consumes the points at or before ts
RECURSIVE Catchup(_, _, _)
Catchup(latest, points, ts) ==
    IF points # <<>> /\ Head(points)[1] <= ts
    THEN Catchup(Some(Head(points)[2]), Tail(points), ts)
    ELSE [latest |-> latest, points |-> points]

\* main.py:432-448: the loop over history_data for one timestamp; contribs
\* records what each input position added to total_value
RECURSIVE InnerLoop(_, _, _, _)
InnerLoop(h, ts, j, acc) ==
    IF j > Len(h.history_data) THEN acc
    ELSE LET asset_hist == h.history_data[j]
             aid == asset_hist.coin_id
             purchase_time == h.asset_purchase_times[aid]
         IN  IF ts < purchase_time
             THEN InnerLoop(h, ts, j + 1, acc)
             ELSE LET c == Catchup(acc.latest_prices[aid], acc.points[aid], ts)
                      added == IF IsNone(c.latest) THEN 0
                               ELSE Val(c.latest) * asset_hist.amount
                  IN  InnerLoop(h, ts, j + 1,
                        [latest_prices |-> [acc.latest_prices EXCEPT ![aid] = c.latest],
                         points |-> [acc.points EXCEPT ![aid] = c.points],
                         total_value |-> acc.total_value + added,
                         contribs |-> [acc.contribs EXCEPT ![asset_hist.idx] = @ + added]])

NoHistoryResponse ==
    [status |-> 0, history |-> <<>>, error |-> None, data_points |-> 0,
     sources |-> {}, assets_without_purchase_date |-> <<>>]

\* 0.01 is reached and a point is written
EmitsAtEpsilon(total_value) == total_value >= HISTORY_EPSILON

\* main.py:450: if total_value > 0.01
Emits(total_value) == total_value > HISTORY_EPSILON

NoHistory ==
    [pc |-> "idle", assets |-> <<>>, days |-> 0, results |-> <<>>, fetched |-> {},
     calls |-> <<>>, delays |-> <<>>, answers |-> <<>>, purchase_writes |-> <<>>,
     history_data |-> <<>>, asset_purchase_times |-> <<>>,
     sorted_timestamps |-> <<>>, k |-> 0, latest_prices |-> <<>>, points |-> <<>>,
     portfolio_history |-> <<>>, contribs |-> <<>>, response |-> NoHistoryResponse,
     n |-> 0, last |-> None]

\* a handler whose output list outlives the call
RequestLocalsKeepHistory(h) ==
    [NoHistory EXCEPT !.n = h.n, !.last = h.last,
                      !.portfolio_history = h.portfolio_history]

\* main.py:363-427: every name the handler uses is a local of the call and
\* starts empty; n counts the calls and last keeps the call before, for the
\* properties
RequestLocals(h) == [NoHistory EXCEPT !.n = h.n, !.last = h.last]

(***************************** symbol directory *****************************)
SYMBOL_CACHE_DURATION == 86400
SymbolsKey == <<"binance_symbols">>

\* a row of the exchangeInfo body
ExchangeRow(symbol, quoteAsset, status) ==
    [symbol |-> symbol, quoteAsset |-> quoteAsset, status |-> status]

\* bodies of GET /exchangeInfo
ExchangeInfos ==
    {<<>>,
     <<ExchangeRow(XUSDT, "USDT", "TRADING")>>,
     <<ExchangeRow(XUSDT, "USDT", "TRADING"), ExchangeRow(xbusd, "BUSD", "TRADING")>>,
     <<ExchangeRow(XUSDT, "USDT", "BREAK"), ExchangeRow(usdtx, "USDT", "TRADING")>>}

\* the call returns a body, or raises (network error, body without 'symbols')
SymbolsOutcomes ==
    {[kind |-> "ok", symbols |-> e] : e \in ExchangeInfos}
        \cup {[kind |-> "exception", symbols |-> <<>>]}

\* main.py:487-501: the USDT pairs that are trading, counted
BinanceSymbolsResult(data) ==
    LET Listed(s) == s.quoteAsset = "USDT" /\ s.status = "TRADING"
        usdt_symbols == SelectSeq(data, Listed)
    IN  [count |-> Len(usdt_symbols), symbols |-> usdt_symbols]

\* main.py:474-477: the cached directory is served when this holds
SymbolCacheFresh ==
    /\ SymbolsKey \in DOMAIN symbol_info_cache
    /\ TimedeltaSeconds(now - symbol_info_cache[SymbolsKey].timestamp)
          < SYMBOL_CACHE_DURATION

NoDirectory == [count |-> 0, symbols |-> <<>>]
NoSymbols ==
    [pc |-> "idle", n |-> 0, ncalls |-> 0, status |-> 0, body |-> NoDirectory,
     hit_age |-> None]

(***************************** klines interval ******************************)
KLINES_LIMIT == 1000
MINUTES_PER_DAY == 1440

\* main.py:267-274: the candle interval for a window of days
KlinesInterval(days) ==
    IF days <= 1 THEN "15m"
    ELSE IF days <= 7 THEN "1h"
    ELSE IF days <= 30 THEN "4h"
    ELSE "1d"

\* length of a candle interval, in minutes
IntervalMinutes(interval) ==
    CASE interval = "15m" -> 15
      [] interval = "1h" -> 60
      [] interval = "4h" -> 240
      [] interval = "1d" -> MINUTES_PER_DAY

\* candles whose open time lies in [startTime, endTime], a window of days
\* ending now: open times are multiples of the interval, so there is one
\* more when startTime is itself an open time
CandlesInWindow(days, interval, aligned) ==
    (days * MINUTES_PER_DAY) \div IntervalMinutes(interval)
        + (IF aligned THEN 1 ELSE 0)

\* main.py:280-286: the candles one request is answered with, from startTime on
CandlesReturned(needed) == IF needed <= KLINES_LIMIT THEN needed ELSE KLINES_LIMIT

NoKlines ==
    [pc |-> "idle", days |-> 0, aligned |-> FALSE, interval |-> "", needed |-> 0,
     returned |-> 0]

(***************************** advanced metrics *****************************)
\* analytics_service/main.py:27-187.  A trade is its pnl, in cents, and its
\* trade_date, a day number.
Trade(pnl, trade_date) == [pnl |-> pnl, trade_date |-> trade_date]

\* analytics_service/main.py:33-34
Winners(trades_data) == SelectSeq(trades_data, LAMBDA t : t.pnl > 0)
Losers(trades_data) == SelectSeq(trades_data, LAMBDA t : t.pnl < 0)

RECURSIVE SumPnl(_)
\* sum(t['pnl'] for t in ...)
SumPnl(trades) ==
    IF Len(trades) = 0 THEN 0 ELSE trades[1].pnl + SumPnl(Tail(trades))

\* math.log(x) for x = num / den with den > 0: ValueError unless x > 0
MathLogRaises(num, den) == num <= 0


\* analytics_service/main.py:157-159: with win_rate < 1.0 the code evaluates
\* math.log(1 - (1 - win_rate)), that is math.log(win_count / total_trades)
ExpectedLossStreakRaises(win_count, total_trades) ==
    /\ win_count < total_trades
    /\ total_trades > 0
    /\ MathLogRaises(win_count, total_trades)

RECURSIVE InsertByDate(_, _)
\* t placed after the trades whose trade_date is not later (a stable sort)
InsertByDate(t, sorted) ==
    IF Len(sorted) = 0 THEN <<t>>
    ELSE IF sorted[Len(sorted)].trade_date <= t.trade_date
         THEN Append(sorted, t)
         ELSE Append(InsertByDate(t, SubSeq(sorted, 1, Len(sorted) - 1)),
                     sorted[Len(sorted)])

RECURSIVE SortedByDate(_)
\* sorted(trades_data, key=lambda x: x['trade_date'])
SortedByDate(trades) ==
    IF Len(trades) = 0 THEN <<>>
    ELSE InsertByDate(trades[Len(trades)],
                      SortedByDate(SubSeq(trades, 1, Len(trades) - 1)))

\* analytics_service/main.py:59-63: the running sum of pnl in trade_date order
EquityCurve(trades_data) ==
    LET sorted == SortedByDate(trades_data) IN
    [k \in 1..Len(sorted) |-> SumPnl(SubSeq(sorted, 1, k))]

\* a peak that starts at zero equity
PeakInitZero(equity_curve) == 0

\* analytics_service/main.py:67
PeakInit(equity_curve) == IF Len(equity_curve) > 0 THEN equity_curve[1] ELSE 0

RECURSIVE DrawdownScan(_, _, _)
\* analytics_service/main.py:69-76: the loop over equity_curve, from its
\* k-th element on, with the peak and max_drawdown it has so far
DrawdownScan(equity_curve, peak, max_drawdown) ==
    IF Len(equity_curve) = 0 THEN max_drawdown
    ELSE LET equity == equity_curve[1]
             new_peak == IF equity > peak THEN equity ELSE peak
             drawdown == new_peak - equity
         IN  DrawdownScan(Tail(equity_curve), new_peak,
                          IF drawdown > max_drawdown THEN drawdown ELSE max_drawdown)

\* analytics_service/main.py:65-76
MaxDrawdown(trades_data) ==
    LET equity_curve == EquityCurve(trades_data) IN
    DrawdownScan(equity_curve, PeakInit(equity_curve), 0)

Max(a, b) == IF a >= b THEN a ELSE b

NoStreaks ==
    [current_streak |-> 0, max_win_streak |-> 0, max_loss_streak |-> 0,
     current_is_win |-> None]

RECURSIVE StreakScan(_, _)
\* analytics_service/main.py:136-148: the loop over the sorted trades
StreakScan(trades, st) ==
    IF Len(trades) = 0 THEN st
    ELSE LET is_win == trades[1].pnl > 0 IN
         StreakScan(Tail(trades),
            IF IsNone(st.current_is_win) \/ st.current_is_win = Some(is_win)
            THEN [st EXCEPT !.current_streak = @ + 1,
                            !.current_is_win = Some(is_win)]
            ELSE IF st.current_is_win = Some(TRUE)
                 THEN [st EXCEPT
                          !.max_win_streak = Max(@, st.current_streak),
                          !.current_streak = 1, !.current_is_win = Some(is_win)]
                 ELSE [st EXCEPT
                          !.max_loss_streak = Max(@, st.current_streak),
                          !.current_streak = 1, !.current_is_win = Some(is_win)])

\* a scan that leaves out the streak still running at the last trade
FinalStreakCheckSkipped(st) == st

\* analytics_service/main.py:150-154: the final streak check
FinalStreakCheck(st) ==
    IF st.current_is_win = Some(TRUE)
    THEN [st EXCEPT !.max_win_streak = Max(@, st.current_streak)]
    ELSE [st EXCEPT !.max_loss_streak = Max(@, st.current_streak)]

\* analytics_service/main.py:130-154
Streaks(trades_data) ==
    FinalStreakCheck(StreakScan(SortedByDate(trades_data), NoStreaks))

\* The outcome of a call.  kind is "dict" when the dictionary is returned and
\* "ValueError" when the call raises; the other fields are the locals the
\* call had computed by then (they are the dictionary's entries when it is
\* returned); avg_loss is the fraction avg_loss_num / avg_loss_den.
EmptyMetrics ==
    [kind |-> "dict", empty |-> TRUE, win_count |-> 0, loss_count |-> 0,
     total_trades |-> 0, current_equity |-> 0, max_drawdown |-> 0,
     max_win_streak |-> 0, max_loss_streak |-> 0,
     avg_loss_num |-> 0, avg_loss_den |-> 1]

\* analytics_service/main.py:27-187: the outcome of calculate_advanced_metrics
calculate_advanced_metrics(trades_data) ==
    IF Len(trades_data) = 0 THEN EmptyMetrics
    ELSE LET total_trades == Len(trades_data)
             win_count == Len(Winners(trades_data))
             loss_count == Len(Losers(trades_data))
             streaks == Streaks(trades_data)
         IN  [kind |-> IF ExpectedLossStreakRaises(win_count, total_trades)
                       THEN "ValueError" ELSE "dict",
              empty |-> FALSE, win_count |-> win_count,
              loss_count |-> loss_count, total_trades |-> total_trades,
              current_equity |-> SumPnl(trades_data),
              max_drawdown |-> MaxDrawdown(trades_data),
              max_win_streak |-> streaks.max_win_streak,
              max_loss_streak |-> streaks.max_loss_streak,
              avg_loss_num |-> IF loss_count > 0 THEN SumPnl(Losers(trades_data))
                               ELSE 0,
              avg_loss_den |-> IF loss_count > 0 THEN loss_count ELSE 1]

\* the answer of GET /stats/overall before any request
NoStats ==
    [kind |-> "none", total_trades |-> 0, wins |-> 0, losses |-> 0,
     avg_loss_num |-> 0, avg_loss_den |-> 1, advanced_metrics |-> EmptyMetrics]

\* analytics_service/main.py:222-306: the answer of get_overall_stats for the
\* rows read from core_trade.  kind is "message" for no rows, "stats" when the
\* statistics are returned and "ValueError" when calculate_advanced_metrics
\* raises; avg_loss is the fraction avg_loss_num / avg_loss_den that line 247
\* computes and line 298 rounds to two decimals.
get_overall_stats(data) ==
    IF Len(data) = 0 THEN [NoStats EXCEPT !.kind = "message"]
    ELSE LET total_trades == Len(data)
             wins == Len(Winners(data))
             losses == total_trades - wins
             advanced_metrics == calculate_advanced_metrics(data)
         IN  [kind |-> IF advanced_metrics.kind = "dict" THEN "stats"
                       ELSE advanced_metrics.kind,
              total_trades |-> total_trades, wins |-> wins, losses |-> losses,
              avg_loss_num |-> IF losses # 0 THEN SumPnl(Losers(data)) ELSE 0,
              avg_loss_den |-> IF losses # 0 THEN losses ELSE 1,
              advanced_metrics |-> advanced_metrics]

NoMetrics ==
    [pc |-> "idle", trades_data |-> <<>>, result |-> EmptyMetrics,
     stats |-> NoStats]

(***************************** Trade (core/models.py) ***********************)
\* Prices and pnl are in ten-thousandths of a dollar (entry_price and
\* exit_price have four decimal places), fees in cents; pnl_percent is the
\* fraction num / den (exact arithmetic stands for the 28-digit Decimal).
CENT == 100                       \* one cent, in ten-thousandths
PERCENT == 100

Directions == {"LONG", "SHORT", "HOLD"}
EntryPrices == {0, 10000}
ExitPrices == {None, Some(0), Some(5000), Some(20000)}
PositionSizes == {0, 2}
TradeFees == {0, 100}
TradeTime == "09:30"

\* core/models.py:28-40: a new instance with the defaults of pnl and
\* pnl_percent and no time yet
NewTrade(direction, entry_price, exit_price, position_size, fees) ==
    [direction |-> direction, entry_price |-> entry_price,
     exit_price |-> exit_price, position_size |-> position_size,
     fees |-> fees, time |-> None,
     pnl |-> 0, pnl_percent |-> [num |-> 0, den |-> 1]]

\* core/models.py:51: exit_price, entry_price and position_size are truthy
HasClosingData(t) ==
    /\ ~IsNone(t.exit_price)
    /\ Val(t.exit_price) # 0
    /\ t.entry_price # 0
    /\ t.position_size # 0

\* a pnl that takes every trade for a long one
TradePnlLongOnly(direction, entry, exit, size, fees) ==
    (exit - entry) * size - fees

\* core/models.py:58-69: pnl by direction
TradePnl(direction, entry, exit, size, fees) ==
    IF direction = "LONG"
    THEN (exit - entry) * size - fees
    ELSE (entry - exit) * size - fees

\* core/models.py:62-63 and 68-69: pnl_percent, left as it is when entry <= 0
TradePnlPercent(direction, entry, exit, pnl_percent) ==
    IF entry > 0
    THEN IF direction = "LONG"
         THEN [num |-> (exit - entry) * PERCENT, den |-> entry]
         ELSE [num |-> (entry - exit) * PERCENT, den |-> entry]
    ELSE pnl_percent

\* core/models.py:52-69: the body of the if
ComputePnl(t) ==
    LET entry == t.entry_price
        exit == Val(t.exit_price)
        size == t.position_size
        fees == t.fees * CENT
    IN  [t EXCEPT
            !.pnl = TradePnl(t.direction, entry, exit, size, fees),
            !.pnl_percent = TradePnlPercent(t.direction, entry, exit, @)]

\* core/models.py:72-73: time is filled from trade_date when it is unset
FillTime(t) == IF IsNone(t.time) THEN [t EXCEPT !.time = Some(TradeTime)] ELSE t

\* a save that resets the P&L of a trade without closing data
save_resetting(t) ==
    FillTime(IF HasClosingData(t) THEN ComputePnl(t)
             ELSE [t EXCEPT !.pnl = 0, !.pnl_percent = [num |-> 0, den |-> 1]])

\* core/models.py:49-73: what save does to the instance before it is written
save(t) == FillTime(IF HasClosingData(t) THEN ComputePnl(t) ELSE t)

\* core/models.py:77-83
is_winner(t) == t.pnl > 0

\* the instance under edit, the row written by the last save (None before
\* the first), and whether a save has computed the P&L so far
NoTrade ==
    [pc |-> "idle", inst |-> NewTrade("LONG", 0, None, 0, 0), row |-> None,
     computed |-> FALSE]

(***************************** portfolio_summary (core/views.py) ************)
\* Amounts are in whole units and prices in cents; a purchase_price of the
\* list is the fraction num / den (exact arithmetic stands for Decimal and
\* for the float it is converted to).
AssetSymbols == {"BTC", "ETH"}
AssetAmounts == {-1, 0, 2}
AssetPrices == {None, Some(0), Some(3)}

\* core/serializers.py:39: a CryptoAsset row of the user; since migration
\* 0006 several rows may have the same symbol
CryptoAsset(symbol, coin_id, amount, purchase_price) ==
    [symbol |-> symbol, coin_id |-> coin_id, amount |-> amount,
     purchase_price |-> purchase_price]

\* the coin_id that the rows of these domains carry for a symbol
CoinIdOf(symbol) == IF symbol = "BTC" THEN "bitcoin" ELSE "ethereum"

CryptoAssets ==
    {CryptoAsset(sym, CoinIdOf(sym), a, p) :
        sym \in AssetSymbols, a \in AssetAmounts, p \in AssetPrices}

\* core/views.py:97-103: the default of grouped_assets
NewGroup ==
    [symbol |-> "", coin_id |-> "", total_amount |-> 0, total_cost |-> 0,
     purchases |-> <<>>]

\* core/views.py:119: asset.purchase_price is truthy
HasPurchasePrice(asset) ==
    ~IsNone(asset.purchase_price) /\ Val(asset.purchase_price) # 0

\* core/views.py:111-122: the purchase listed for a row
Purchase(asset) ==
    [amount |-> asset.amount,
     purchase_price |-> IF HasPurchasePrice(asset) THEN asset.purchase_price
                        ELSE None,
     cost |-> IF HasPurchasePrice(asset)
              THEN Some(asset.amount * Val(asset.purchase_price)) ELSE None]

\* a grouping that keeps the last purchase of a symbol instead of the sum
AddPurchaseLatest(group, asset) ==
    [group EXCEPT
        !.symbol = asset.symbol, !.coin_id = asset.coin_id,
        !.total_amount = asset.amount,
        !.total_cost = IF HasPurchasePrice(asset)
                       THEN asset.amount * Val(asset.purchase_price) ELSE 0,
        !.purchases = Append(@, Purchase(asset))]

\* core/views.py:107-124: one row added to the group of its symbol
AddPurchase(group, asset) ==
    [group EXCEPT
        !.symbol = asset.symbol, !.coin_id = asset.coin_id,
        !.total_amount = @ + asset.amount,
        !.total_cost = IF HasPurchasePrice(asset)
                       THEN @ + asset.amount * Val(asset.purchase_price) ELSE @,
        !.purchases = Append(@, Purchase(asset))]

RECURSIVE GroupAssets(_, _, _)
\* core/views.py:105-124: the loop over the rows; grouped_assets is a dict,
\* here the sequence keys of its keys in insertion order and the function
\* groups from key to group
GroupAssets(assets, keys, groups) ==
    IF Len(assets) = 0 THEN [keys |-> keys, groups |-> groups]
    ELSE LET asset == assets[1]
             key == asset.symbol
             known == \E i \in 1..Len(keys) : keys[i] = key
             group == IF known THEN groups[key] ELSE NewGroup
         IN  GroupAssets(Tail(assets),
                         IF known THEN keys ELSE Append(keys, key),
                         [k \in DOMAIN groups \cup {key} |->
                             IF k = key THEN AddPurchase(group, asset)
                             ELSE groups[k]])

\* core/views.py:127-136: the list prepared for the portfolio service
AssetList(assets) ==
    LET grouped_assets == GroupAssets(assets, <<>>, <<>>) IN
    [i \in 1..Len(grouped_assets.keys) |->
        LET data == grouped_assets.groups[grouped_assets.keys[i]] IN
        [symbol |-> data.symbol, amount |-> data.total_amount,
         coin_id |-> data.coin_id,
         purchase_price |->
             IF data.total_amount > 0 /\ data.total_cost > 0
             THEN Some([num |-> data.total_cost, den |-> data.total_amount])
             ELSE None,
         purchases |-> data.purchases]]

\* core/views.py:138-159: the answer: the zero summary for no rows, else what
\* the portfolio service answers, or 503 when it fails
portfolio_summary(assets, service) ==
    LET asset_list == AssetList(assets) IN
    [asset_list |-> asset_list,
     sent |-> Len(asset_list) > 0,
     status |-> IF Len(asset_list) = 0 \/ service = "ok" THEN 200 ELSE 503,
     body |-> IF Len(asset_list) = 0 THEN "zero"
              ELSE IF service = "ok" THEN "valuation" ELSE "error"]

NoSummary ==
    [pc |-> "idle", assets |-> <<>>,
     response |-> [asset_list |-> <<>>, sent |-> FALSE, status |-> 0, body |-> ""]]

(***************************** migrate_to_binance.py ************************)
\* migrate_to_binance.py:11-27, as the set of its (key, value) pairs
COIN_MAPPING_ITEMS ==
    {<<<<"b", "i", "t", "c", "o", "i", "n">>,
       <<"B", "T", "C", "U", "S", "D", "T">>>>,
     <<<<"e", "t", "h", "e", "r", "e", "u", "m">>,
       <<"E", "T", "H", "U", "S", "D", "T">>>>,
     <<<<"s", "o", "l", "a", "n", "a">>,
       <<"S", "O", "L", "U", "S", "D", "T">>>>,
     <<<<"c", "a", "r", "d", "a", "n", "o">>,
       <<"A", "D", "A", "U", "S", "D", "T">>>>,
     <<<<"r", "i", "p", "p", "l", "e">>,
       <<"X", "R", "P", "U", "S", "D", "T">>>>,
     <<<<"p", "o", "l", "k", "a", "d", "o", "t">>,
       <<"D", "O", "T", "U", "S", "D", "T">>>>,
     <<<<"d", "o", "g", "e", "c", "o", "i", "n">>,
       <<"D", "O", "G", "E", "U", "S", "D", "T">>>>,
     <<<<"a", "v", "a", "l", "a", "n", "c", "h", "e", "-", "2">>,
       <<"A", "V", "A", "X", "U", "S", "D", "T">>>>,
     <<<<"p", "o", "l", "y", "g", "o", "n">>,
       <<"M", "A", "T", "I", "C", "U", "S", "D", "T">>>>,
     <<<<"c", "h", "a", "i", "n", "l", "i", "n", "k">>,
       <<"L", "I", "N", "K", "U", "S", "D", "T">>>>,
     <<<<"u", "n", "i", "s", "w", "a", "p">>,
       <<"U", "N", "I", "U", "S", "D", "T">>>>,
     <<<<"l", "i", "t", "e", "c", "o", "i", "n">>,
       <<"L", "T", "C", "U", "S", "D", "T">>>>,
     <<<<"s", "h", "i", "b", "a", "-", "i", "n", "u">>,
       <<"S", "H", "I", "B", "U", "S", "D", "T">>>>,
     <<<<"t", "r", "o", "n">>,
       <<"T", "R", "X", "U", "S", "D", "T">>>>,
     <<<<"d", "a", "i">>,
       <<"D", "A", "I", "U", "S", "D", "T">>>>}

\* migrate_to_binance.py:11-27: the dict, from key to value
COIN_MAPPING ==
    [key \in {item[1] : item \in COIN_MAPPING_ITEMS} |->
        (CHOOSE item \in COIN_MAPPING_ITEMS : item[1] = key)[2]]

\* a migration step that gives every asset the pair made of its coin_id
MigrateAssetAll(asset) ==
    [asset |-> [asset EXCEPT !.coin_id = Upper(@) \o USDT], migrated |-> TRUE]

\* migrate_to_binance.py:34-42: one turn of the loop: the asset as saved, or
\* as it was, and whether it counts as migrated
MigrateAsset(asset) ==
    IF asset.coin_id \in DOMAIN COIN_MAPPING
    THEN [asset |-> [asset EXCEPT !.coin_id = COIN_MAPPING[asset.coin_id]],
          migrated |-> TRUE]
    ELSE [asset |-> asset, migrated |-> FALSE]

\* migrate_to_binance.py:29-45: a run of the script over the rows
migrate_to_binance(assets) ==
    LET turns == [i \in 1..Len(assets) |-> MigrateAsset(assets[i])] IN
    [assets |-> [i \in 1..Len(assets) |-> turns[i].asset],
     migrated |-> Cardinality({i \in 1..Len(assets) : turns[i].migrated}),
     skipped |-> Cardinality({i \in 1..Len(assets) : ~turns[i].migrated})]

\* the rows of core_cryptoasset and what each run so far has printed
NoMigration == [assets |-> <<>>, runs |-> <<>>]

\* the state of the Django application before any use
InitDjango ==
    /\ trade = NoTrade
    /\ summary = NoSummary
    /\ migration = NoMigration

\* the state, outside the price and history endpoints, after start
InitAux ==
    /\ history_cache = <<>>
    /\ symbol_info_cache = <<>>
    /\ symbols = NoSymbols
    /\ klines = NoKlines
    /\ metrics = NoMetrics
    /\ InitDjango

\* a join that returns with the first task that finishes
FirstDone == \E i \in DOMAIN tasks : tasks[i].pc = "done"

\* main.py:201 and 185: await asyncio.gather(*price_tasks) has returned
AllDone == \A i \in DOMAIN tasks : tasks[i].pc = "done"

Idle == [kind |-> "idle", assets |-> <<>>]
NoPrev == NewTask(<<>>)

\* main.py:182-185: GET /price/{coin_id} starts
GetPriceEndpoint(coin_id) ==
    /\ req.kind = "idle"
    /\ nreq < MaxRequests
    /\ nreq' = nreq + 1
    /\ req' = [kind |-> "price", assets |-> <<>>]
    /\ tasks' = <<get_crypto_price_smart_enter(coin_id)>>
    /\ UNCHANGED <<now, price_cache, response, prev, nadv>>
    /\ UNCHANGED nonPriceVars

\* main.py:185 / 171: GET /price/{coin_id} answers, 404 when no source served
GetPriceReturn ==
    /\ req.kind = "price"
    /\ AllDone
    /\ response' = [kind |-> "price",
                    status |-> IF tasks[1].status = "ok" THEN 200 ELSE 404,
                    body |-> EmptySummary, assets |-> <<>>, results |-> tasks]
    /\ prev' = tasks[1]
    /\ req' = Idle
    /\ tasks' = <<>>
    /\ UNCHANGED <<now, price_cache, nreq, nadv>>
    /\ UNCHANGED nonPriceVars

\* time passes
ClockSteps == {30000, 60000, 300000, 86400000}
Advance(d) ==
    /\ nadv < MaxAdvances
    /\ nadv' = nadv + 1
    /\ now' = now + d
    /\ UNCHANGED <<price_cache, tasks, req, response, prev, nreq>>
    /\ UNCHANGED nonPriceVars

NoResponse ==
    [kind |-> "none", status |-> 0, body |-> EmptySummary, assets |-> <<>>,
     results |-> <<>>]

Init ==
    /\ now = 0
    /\ price_cache = <<>>
    /\ tasks = <<>>
    /\ req = Idle
    /\ response = NoResponse
    /\ prev = NoPrev
    /\ nreq = 0
    /\ nadv = 0
    /\ hist = NoHistory
    /\ InitAux

Next ==
    \/ \E c \in CoinIds : GetPriceEndpoint(c)
    \/ GetPriceReturn
    \/ \E i \in 1..MaxBatch, out \in BinanceOutcomes : BinanceResponse(i, out)
    \/ \E i \in 1..MaxBatch : GeckoWake(i)
    \/ \E i \in 1..MaxBatch, out \in GeckoOutcomes : GeckoResponse(i, out)
    \/ \E d \in ClockSteps : Advance(d)

vars == <<priceVars, nonPriceVars>>
Spec == Init /\ [][Next]_vars

\* GET /price/{coin_id} requests whose upstream calls may also be answered
\* 429 Too Many Requests
NextRetry ==
    \/ \E c \in CoinIds : GetPriceEndpoint(c)
    \/ GetPriceReturn
    \/ \E i \in 1..MaxBatch, out \in BinanceOutcomes \cup {TooManyRequests} :
          BinanceResponse(i, out)
    \/ \E i \in 1..MaxBatch : GeckoWake(i)
    \/ \E i \in 1..MaxBatch, out \in GeckoOutcomes \cup {TooManyRequests} :
          GeckoResponse(i, out)

SpecRetry == Init /\ [][NextRetry]_vars

(***************************** POST /portfolio/calculate ********************)
SymbolOf(coin_id) == <<LowerChar(coin_id[1])>>

Holding(coin_id, amount, purchase_price) ==
    [symbol |-> SymbolOf(coin_id), coin_id |-> coin_id, amount |-> amount,
     purchase_price |-> purchase_price, purchase_date |-> None]

BatchesOf(S, n) == UNION {[1..k -> S] : k \in 0..n}

\* holdings of the requests whose price tasks run concurrently
BatchHoldings ==
    {Holding(c, 5, pp) : c \in CoinIds, pp \in {None, Some(2000000)}}

\* gather called without return_exceptions
ReturnExceptionsOff == FALSE

\* main.py:201: asyncio.gather(*price_tasks, return_exceptions=True)
ReturnExceptions == TRUE

\* main.py:187-201: the request starts; gather schedules one coroutine per
\* holding and each runs, in input order, up to its first await
CalculatePortfolio(assets) ==
    /\ req.kind = "idle"
    /\ nreq < MaxRequests
    /\ nreq' = nreq + 1
    /\ req' = [kind |-> "valuate", assets |-> assets]
    /\ tasks' = [i \in 1..Len(assets) |-> get_crypto_price_smart_enter(assets[i].coin_id)]
    /\ UNCHANGED <<now, price_cache, response, prev, nadv>>
    /\ UNCHANGED nonPriceVars

\* a handler that refuses an empty list of holdings
ValuateStatusRejectEmpty(assets, results) ==
    IF Len(assets) = 0 THEN 400 ELSE 200

\* main.py:191-195 and 201-261: the handler returns a PortfolioSummary, an
\* HTTP 200; without return_exceptions the first HTTPException(404) would
\* leave it
ValuateStatus(assets, results) ==
    IF ~ReturnExceptions /\ \E i \in DOMAIN results : IsException(results[i])
    THEN 404 ELSE 200

\* main.py:201-261: every price task has finished and the summary is built
CalculatePortfolioReturn ==
    /\ req.kind = "valuate"
    /\ AllDone
    /\ response' =
          [kind |-> "valuate", status |-> ValuateStatus(req.assets, tasks),
           body |-> IF ValuateStatus(req.assets, tasks) = 200
                    THEN PortfolioSummary(req.assets, tasks) ELSE EmptySummary,
           assets |-> req.assets, results |-> tasks]
    /\ req' = Idle
    /\ tasks' = <<>>
    /\ UNCHANGED <<now, price_cache, prev, nreq, nadv>>
    /\ UNCHANGED nonPriceVars

NextValuate ==
    \/ \E a \in BatchesOf(BatchHoldings, MaxBatch) : CalculatePortfolio(a)
    \/ CalculatePortfolioReturn
    \/ \E i \in 1..MaxBatch, out \in BinanceOutcomes : BinanceResponse(i, out)
    \/ \E i \in 1..MaxBatch : GeckoWake(i)
    \/ \E i \in 1..MaxBatch, out \in GeckoOutcomes : GeckoResponse(i, out)

\* the process right after start, with one request left to follow
InitValuate ==
    /\ now = 0
    /\ price_cache = <<>>
    /\ tasks = <<>>
    /\ req = Idle
    /\ response = NoResponse
    /\ prev = NoPrev
    /\ nreq = MaxRequests - 1
    /\ nadv = 0
    /\ hist = NoHistory
    /\ InitAux

\* one request to /portfolio/calculate from a cold cache, its price tasks
\* interleaved in every order
SpecValuate == InitValuate /\ [][NextValuate]_vars

(***************************** valuation arithmetic *************************)
ValuationAmounts == {0, 5, 15}                       \* 0, 0.5 and 1.5 units
ValuationPurchasePrices == {None, Some(0), Some(2000000)}  \* none, 0.00, 20000.00
ValuationHoldings ==
    {Holding(c, a, pp) : c \in {XUSDT, btc}, a \in ValuationAmounts,
                         pp \in ValuationPurchasePrices}

\* a price task as gather returns it: the price data of the source the
\* identifier is routed to, or the HTTPException of main.py:171
FinishedTask(coin_id, out) ==
    IF out.kind = "ok"
    THEN Finish(NewTask(coin_id), "ok",
                IF is_binance_symbol(coin_id) THEN BinanceData(NewTask(coin_id), out)
                ELSE GeckoData(NewTask(coin_id), out), <<>>)
    ELSE Finish(NewTask(coin_id), "error", NoData, <<>>)

FinishedTasks(coin_id) ==
    {FinishedTask(coin_id, out) : out \in OkOutcomes \cup {FailOutcome("non200")}}

\* a holding together with the outcome of its price task
ValuationCases ==
    UNION {{[holding |-> h, task |-> t] : t \in FinishedTasks(h.coin_id)} :
              h \in ValuationHoldings}

\* a batch whose price tasks have all finished, with every combination of
\* holdings and price results
InitValuation ==
    /\ now = 0
    /\ price_cache = <<>>
    /\ response = NoResponse
    /\ prev = NoPrev
    /\ nreq = MaxRequests
    /\ nadv = 0
    /\ hist = NoHistory
    /\ InitAux
    /\ \E b \in BatchesOf(ValuationCases, MaxBatch) :
          /\ req = [kind |-> "valuate", assets |-> [i \in 1..Len(b) |-> b[i].holding]]
          /\ tasks = [i \in 1..Len(b) |-> b[i].task]

NextValuation == CalculatePortfolioReturn

\* the summary computed by calculate_portfolio over all inputs
SpecValuation == InitValuation /\ [][NextValuation]_vars

(***************************** properties ***********************************)
\* every resolution the state holds: those in flight and the last finished one
Resolutions == {tasks[i] : i \in DOMAIN tasks} \cup {prev}

Has(t, ev) == \E k \in 1..Len(t.trace) : t.trace[k] = ev

\* identifiers that end, whatever the case, in USDT or BUSD
PrimaryClassified == {XUSDT, xbusd}

ValuateReturned == response.kind = "valuate"

\* |10 * cents - thousandths| <= 5, and on a tie the even cent: cents is
\* the amount in thousandths rounded to 2 decimal places
NearestCent(thousandths, cents) ==
    /\ 10 * cents - thousandths <= 5
    /\ thousandths - 10 * cents <= 5
    /\ (10 * cents - thousandths \in {5, -5}) => cents % 2 = 0

Resolved(i) == response.results[i].status = "ok"

\* C1: a valuation whose batch mixes failed and resolved holdings returns
\* successfully with one entry per holding, in place: the entry of a holding
\* whose resolution ended unavailable carries an error and null current_price
\* and current_value, the entry of a resolved holding is fully valued.
C1_PartialFailureContained ==
    ValuateReturned =>
        /\ response.status = 200
        /\ Len(response.body.assets) = Len(response.assets)
        /\ \A i \in 1..Len(response.assets) :
              LET e == response.body.assets[i]
                  a == response.assets[i]
                  t == response.results[i]
              IN  /\ i \in DOMAIN response.body.assets
                  /\ e.coin_id = a.coin_id
                  /\ e.amount = a.amount
                  /\ IF Has(t, "unavailable")
                     THEN /\ e.error # None
                          /\ e.current_price = None
                          /\ e.current_value = None
                     ELSE /\ e.error = None
                          /\ e.current_price = Some(t.data.price_usd)
                          /\ ~IsNone(e.current_value)
                          /\ NearestCent(a.amount * t.data.price_usd, Val(e.current_value))
                          /\ e.source = Some(t.data.source)

C1_Witness ==
    /\ ValuateReturned
    /\ \E i, j \in 1..Len(response.assets) :
          /\ Has(response.results[i], "unavailable")
          /\ response.results[j].status = "ok"
          /\ response.body.assets[i].error # None
          /\ response.body.assets[j].error = None

\* C2: for a Primary-classified identifier the resolver calls the Primary
\* adapter first, calls the Fallback adapter only right after the Primary
\* attempt failed, reports unavailable only right after the Fallback attempt
\* failed, and does nothing more once Primary has served the price.
C2_FailoverOrdering ==
    \A t \in Resolutions :
        t.coin_id \in PrimaryClassified =>
            /\ Len(t.trace) > 0 => t.trace[1] = "primary"
            /\ \A k \in 1..Len(t.trace) :
                  /\ t.trace[k] = "fallback" => k > 1 /\ t.trace[k - 1] = "primary_fail"
                  /\ t.trace[k] = "primary_fail" => k > 1 /\ t.trace[k - 1] = "primary_http"
                  /\ t.trace[k] = "unavailable" => k > 1 /\ t.trace[k - 1] = "fallback_fail"
                  /\ t.trace[k] \in {"primary_ok", "primary_hit"} => k = Len(t.trace)
            /\ t.status = "error" => Has(t, "primary_fail") /\ Has(t, "fallback_fail")

C2_Witness ==
    /\ prev.coin_id \in PrimaryClassified
    /\ prev.status = "error"
    /\ prev.trace = <<"primary", "primary_http", "primary_fail", "fallback",
                      "fallback_http", "fallback_fail", "unavailable">>

TtlMs(source) ==
    IF source = "binance" THEN PRICE_CACHE_DURATION * MS_PER_SECOND
    ELSE GECKO_PRICE_CACHE_DURATION * MS_PER_SECOND

\* two sequential resolutions of one identifier: the first succeeded after
\* calling upstream, the second has finished and started within the TTL
\* window of the entry that served the first
SecondWithinTtl ==
    /\ req.kind = "price"
    /\ Len(tasks) = 1
    /\ tasks[1].pc = "done"
    /\ prev.status = "ok"
    /\ prev.ncalls >= 1
    /\ tasks[1].coin_id = prev.coin_id
    /\ tasks[1].started_at - Val(prev.cached_at) < TtlMs(prev.data.source)

C3_WitnessHit ==
    /\ SecondWithinTtl
    /\ Has(tasks[1], "fallback_hit")
    /\ tasks[1].started_at > Val(prev.cached_at)

\* C4: a read serves a cached price only when the age of the entry is
\* strictly below its TTL (60 s Primary, 300 s Fallback), at every age.
C4_NeverServedAtOrPastTtl ==
    \A t \in Resolutions :
        ~IsNone(t.hit_age) => Val(t.hit_age) < TtlMs(t.data.source)

\* C7: the reported current_value of every resolved holding is
\* amount * resolved price rounded to 2 decimal places.
C7_CurrentValue ==
    ValuateReturned =>
        \A i \in 1..Len(response.assets) :
            Resolved(i) =>
                /\ ~IsNone(response.body.assets[i].current_value)
                /\ NearestCent(response.assets[i].amount * response.results[i].data.price_usd,
                               Val(response.body.assets[i].current_value))

C7_Witness ==
    /\ ValuateReturned
    /\ \E i \in 1..Len(response.assets) :
          /\ Resolved(i)
          /\ (response.assets[i].amount * response.results[i].data.price_usd) % 10 = 5
          /\ response.body.assets[i].current_value = Some(12)

ResolvedValues ==
    [i \in 1..Len(response.assets) |->
        IF Resolved(i)
        THEN response.assets[i].amount * response.results[i].data.price_usd
        ELSE 0]

\* C8: total_value_usd is the sum of amount * price over the holdings whose
\* price resolved, with or without a purchase price, rounded to 2 decimals;
\* failed holdings add nothing.
C8_TotalValue ==
    ValuateReturned =>
        NearestCent(SumOver(ResolvedValues, Len(response.assets)),
                    response.body.total_value_usd)

C8_Witness ==
    /\ ValuateReturned
    /\ response.body.total_value_usd > 0
    /\ \E i, j \in 1..Len(response.assets) :
          /\ ~Resolved(i)
          /\ Resolved(j)
          /\ IsNone(response.assets[j].purchase_price)
          /\ response.assets[j].amount > 0

\* holdings with a (non-zero) purchase price and a resolved current price
Priced(i) == Resolved(i) /\ Truthy(response.assets[i].purchase_price)

PricedCosts ==
    [i \in 1..Len(response.assets) |->
        IF Priced(i)
        THEN response.assets[i].amount * Val(response.assets[i].purchase_price)
        ELSE 0]

PricedPnls ==
    [i \in 1..Len(response.assets) |->
        IF Priced(i)
        THEN response.assets[i].amount * response.results[i].data.price_usd
             - response.assets[i].amount * Val(response.assets[i].purchase_price)
        ELSE 0]

\* C9: total_cost is the sum of amount * purchase_price and total_pnl the sum
\* of (current value - cost), both over the holdings that have a purchase
\* price and a resolved price only.
C9_TotalsOverPricedOnly ==
    ValuateReturned /\ Len(response.assets) > 0 =>
        /\ NearestCent(SumOver(PricedCosts, Len(response.assets)), response.body.total_cost)
        /\ NearestCent(SumOver(PricedPnls, Len(response.assets)), response.body.total_pnl)

\* the per-asset figures of entry i are those of a holding with a purchase price
EntryHasPnl(i) ==
    LET e == response.body.assets[i]
        a == response.assets[i]
        value == a.amount * response.results[i].data.price_usd
        cost == a.amount * Val(a.purchase_price)
    IN  /\ ~IsNone(e.cost) /\ NearestCent(cost, Val(e.cost))
        /\ ~IsNone(e.pnl) /\ NearestCent(value - cost, Val(e.pnl))
        /\ e.pnl_percent = Some(IF cost > 0 THEN RoundQuot(value - cost, cost, 4) ELSE 0)

EntryHasNoPnl(i) ==
    LET e == response.body.assets[i] IN
    e.cost = None /\ e.pnl = None /\ e.pnl_percent = None

\* C10 as stated: every resolved holding that has a purchase price reports
\* cost, pnl and pnl_percent, every resolved holding without one reports
\* them null.
C10_PerAssetPnl ==
    ValuateReturned =>
        \A i \in 1..Len(response.assets) :
            Resolved(i) =>
                IF ~IsNone(response.assets[i].purchase_price)
                THEN EntryHasPnl(i) ELSE EntryHasNoPnl(i)

\* C10 as amended: every resolved holding whose purchase price is present
\* and not 0 reports cost = amount * purchase_price, pnl = current value -
\* cost and pnl_percent = pnl / cost * 100 (0 when cost is not positive),
\* each rounded to 2 decimals; a resolved holding whose purchase price is
\* absent or 0 reports the three null.
C10_PerAssetPnlNonZeroPrice ==
    ValuateReturned =>
        \A i \in 1..Len(response.assets) :
            Resolved(i) =>
                IF Truthy(response.assets[i].purchase_price)
                THEN EntryHasPnl(i) ELSE EntryHasNoPnl(i)

\* 0.5 bought at 20000 and priced 30000: 15000.00, 10000.00, 5000.00, 50.00;
\* beside it a holding of amount 0, whose cost is not positive
C10_Witness ==
    /\ ValuateReturned
    /\ \E i, j \in 1..Len(response.assets) :
          /\ response.assets[i].amount = 5
          /\ response.assets[i].purchase_price = Some(2000000)
          /\ Resolved(i)
          /\ response.results[i].data.price_usd = 3000000
          /\ response.body.assets[i].current_value = Some(1500000)
          /\ response.body.assets[i].cost = Some(1000000)
          /\ response.body.assets[i].pnl = Some(500000)
          /\ response.body.assets[i].pnl_percent = Some(5000)
          /\ response.assets[j].amount = 0
          /\ Truthy(response.assets[j].purchase_price)
          /\ Resolved(j)
          /\ response.body.assets[j].pnl_percent = Some(0)

(***************************** properties: concurrency and errors ***********)
CountEvents(t, ev) == Len(SelectSeq(t.trace, LAMBDA e : e = ev))
Count429(t, adapter) == Len(SelectSeq(t.got429, LAMBDA a : a = adapter))

\* C12: any two HTTP calls to the Fallback upstream made by concurrent
\* resolutions are at least the minimum interval (1.5 s) apart.
C12_FallbackCallsSpaced ==
    \A i, j \in DOMAIN tasks :
        (i # j /\ ~IsNone(tasks[i].gecko_call_at) /\ ~IsNone(tasks[j].gecko_call_at)) =>
            \/ Val(tasks[i].gecko_call_at) - Val(tasks[j].gecko_call_at) >= GECKO_PRICE_SLEEP_MS
            \/ Val(tasks[j].gecko_call_at) - Val(tasks[i].gecko_call_at) >= GECKO_PRICE_SLEEP_MS

\* C13: a fetch answered 429 is retried: an adapter gives up on a 429 only
\* when that was its third attempt, and never makes more than 3 attempts.
C13_BoundedRetryOn429 ==
    \A t \in Resolutions :
        /\ (Has(t, "primary_fail") /\ Count429(t, "primary") > 0) =>
               CountEvents(t, "primary_http") = 3
        /\ (Has(t, "fallback_fail") /\ Count429(t, "fallback") > 0) =>
               CountEvents(t, "fallback_http") = 3
        /\ CountEvents(t, "primary_http") <= 3
        /\ CountEvents(t, "fallback_http") <= 3

\* C15: a valuation of no holdings creates no price task, so issues no
\* upstream call, returns 200 with all totals 0 and no asset, and leaves the
\* cache as it was.
C15_EmptyBatch ==
    [][/\ (req.kind = "idle" /\ req'.kind = "valuate" /\ req'.assets = <<>>) =>
              (tasks' = <<>> /\ price_cache' = price_cache)
       /\ (req.kind = "valuate" /\ req.assets = <<>>) =>
              /\ tasks = <<>>
              /\ req'.kind = "idle" =>
                    /\ response'.status = 200
                    /\ response'.body =
                          [total_value_usd |-> 0, total_cost |-> 0, total_pnl |-> 0,
                           total_pnl_percent |-> 0, assets |-> <<>>]
                    /\ response'.results = <<>>
                    /\ price_cache' = price_cache]_vars

C15_Witness ==
    /\ ValuateReturned
    /\ response.assets = <<>>
    /\ response.status = 200
    /\ response.body.assets = <<>>

\* C18: two concurrent resolutions of one identifier in a batch valued from
\* an empty cache issue one upstream call per provider between them and
\* return the same result.
C18_SingleFlight ==
    ValuateReturned =>
        \A i, j \in 1..Len(response.assets) :
            (i # j /\ response.assets[i].coin_id = response.assets[j].coin_id) =>
                /\ CountEvents(response.results[i], "primary_http")
                     + CountEvents(response.results[j], "primary_http") <= 1
                /\ CountEvents(response.results[i], "fallback_http")
                     + CountEvents(response.results[j], "fallback_http") <= 1
                /\ response.results[i].status = response.results[j].status
                /\ response.results[i].data = response.results[j].data

\* the cache key a payload belongs under
KeyOf(data) ==
    IF data.source = "binance" THEN BinanceKey(data.symbol) ELSE GeckoKey(data.symbol)

\* task i receives a successful upstream answer in this step (a Primary
\* failure followed by a hit on the Fallback entry is not one)
FetchSucceeds(i) ==
    /\ i \in DOMAIN tasks'
    /\ tasks[i].pc \in {"binance_http", "gecko_http"}
    /\ tasks'[i].pc = "done"
    /\ tasks'[i].trace[Len(tasks'[i].trace)] \in {"primary_ok", "fallback_ok"}

\* C19: every cache entry is a complete (payload, fetched-at) pair whose
\* payload is a price of the identifier its key names; an entry changes only
\* when a fetch succeeds, and right after a successful fetch the entry of its
\* key is that fetch's payload and time, whatever the key held before.
C19_CacheIntegrity ==
    /\ [](\A k \in DOMAIN price_cache :
            /\ DOMAIN price_cache[k] = {"data", "timestamp"}
            /\ price_cache[k].data.price_usd \in Prices
            /\ price_cache[k].data.source \in {"binance", "coingecko"}
            /\ price_cache[k].timestamp \in 0..now
            /\ KeyOf(price_cache[k].data) = k)
    /\ [][/\ \A i \in DOMAIN tasks :
                FetchSucceeds(i) =>
                    /\ KeyOf(tasks'[i].data) \in DOMAIN price_cache'
                    /\ price_cache'[KeyOf(tasks'[i].data)] =
                          [data |-> tasks'[i].data, timestamp |-> now']
          /\ \A k \in DOMAIN price_cache' :
                (k \notin DOMAIN price_cache \/ price_cache'[k] # price_cache[k]) =>
                    \E i \in DOMAIN tasks : FetchSucceeds(i) /\ KeyOf(tasks'[i].data) = k
          /\ DOMAIN price_cache \subseteq DOMAIN price_cache']_vars

\* two fetches raced on one key with different prices; the entry is that of
\* the one that answered last
C19_Witness ==
    /\ Len(tasks) = 2
    /\ tasks[1].coin_id = tasks[2].coin_id
    /\ Has(tasks[1], "primary_ok")
    /\ Has(tasks[2], "primary_ok")
    /\ tasks[1].data # tasks[2].data
    /\ price_cache[KeyOf(tasks[1].data)].data = tasks[1].data

(***************************** POST /portfolio/history **********************)
HistoryAmounts == {5, 6}                         \* 0.5 and 0.6 units
PurchaseDates == {None, Some(60), Some(200)}     \* seconds
HistoryDays == {7}

HistoryHoldings ==
    {[Holding(c, a, None) EXCEPT !.purchase_date = pd] :
        c \in {XUSDT, btc}, a \in HistoryAmounts, pd \in PurchaseDates}

\* klines as Binance returns them, oldest first: 10.00 at t = 0 s and
\* 20.00 at t = 100 s
BinanceSeries == {<< <<0, 1000>>, <<100000, 2000>> >>}
\* a market chart of CoinGecko, here not in time order: 9.00 at t = 100 s
\* and 0.02 at t = 50 s
GeckoSeries == {<< <<100000, 900>>, <<50000, 2>> >>}

BinanceHistoryOutcomes == {HistoryFail, HistoryOk(<<>>)} \cup {HistoryOk(p) : p \in BinanceSeries}
GeckoHistoryOutcomes == {HistoryFail, HistoryOk(<<>>)} \cup {HistoryOk(p) : p \in GeckoSeries}

\* main.py:363-376: the request starts (368-369: no holdings, no work)
GetPortfolioHistory(assets, days) ==
    /\ hist.pc = "idle"
    /\ hist' =
          IF Len(assets) = 0
          THEN [RequestLocals(hist) EXCEPT
                   !.pc = "returned", !.days = days, !.n = @ + 1,
                   !.response = [NoHistoryResponse EXCEPT !.status = 200]]
          ELSE [RequestLocals(hist) EXCEPT
                                 !.pc = "fetching", !.assets = assets, !.days = days,
                                 !.n = @ + 1,
                                 !.results = [i \in 1..Len(assets) |-> None],
                                 !.calls = [i \in 1..Len(assets) |-> <<>>],
                                 !.delays = [i \in 1..Len(assets) |-> <<>>],
                                 !.answers = [i \in 1..Len(assets) |-> <<>>]]
    /\ UNCHANGED <<priceVars, auxVars>>

\* main.py:375-376: one of the gathered fetch_coin_history_smart coroutines
\* runs to its end; they share no state, so each is one step
FetchHistory(i, bout, gout) ==
    /\ hist.pc = "fetching"
    /\ i \in 1..Len(hist.assets)
    /\ i \notin hist.fetched
    /\ hist' = [hist EXCEPT
          !.fetched = @ \cup {i},
          !.results[GatherSlot(i, hist.fetched)] =
              fetch_coin_history_smart(hist.assets[i], bout, gout),
          !.calls[GatherSlot(i, hist.fetched)] = HistoryCalls(hist.assets[i], bout),
          !.delays[GatherSlot(i, hist.fetched)] =
              HistoryCallDelays(hist.assets[i], bout),
          !.answers[GatherSlot(i, hist.fetched)] =
              HistoryAnswers(hist.assets[i], bout, gout)]
    /\ UNCHANGED <<priceVars, auxVars>>

\* main.py:376-427: gather has returned; the locals of the aggregation are
\* built, or the request returns for want of any series (379-384)
HistoryGathered ==
    /\ hist.pc = "fetching"
    /\ hist.fetched = 1..Len(hist.assets)
    /\ LET history_data == HistoryData(hist.results) IN
       hist' =
          IF Len(history_data) = 0
          THEN [hist EXCEPT !.pc = "returned",
                   !.response = [NoHistoryResponse EXCEPT
                                    !.status = 200,
                                    !.error = Some("No historical data available")]]
          ELSE [hist EXCEPT !.pc = "aggregating",
                   !.history_data = history_data,
                   !.purchase_writes = PurchaseWrites(hist.assets, hist.results),
                   !.asset_purchase_times = AssetPurchaseTimes(hist.assets, history_data),
                   !.sorted_timestamps = SortedTimestamps(history_data),
                   !.latest_prices = LatestPricesInit(history_data),
                   !.points = PointsInit(history_data)]
    /\ UNCHANGED <<priceVars, auxVars>>

\* main.py:429-455: one turn of the loop over sorted_timestamps
HistoryStep ==
    /\ hist.pc = "aggregating"
    /\ hist.k < Len(hist.sorted_timestamps)
    /\ LET ts == hist.sorted_timestamps[hist.k + 1]
           acc == InnerLoop(hist, ts, 1,
                     [latest_prices |-> hist.latest_prices, points |-> hist.points,
                      total_value |-> 0,
                      contribs |-> [i \in 1..Len(hist.assets) |-> 0]])
       IN  hist' = [hist EXCEPT
              !.k = @ + 1,
              !.latest_prices = acc.latest_prices,
              !.points = acc.points,
              !.contribs = Append(@, acc.contribs),
              !.portfolio_history =
                  IF Emits(acc.total_value)
                  THEN Append(@, [timestamp |-> ts, value |-> Round2(acc.total_value)])
                  ELSE @]
    /\ UNCHANGED <<priceVars, auxVars>>

\* main.py:457-467: the result
HistoryReturn ==
    /\ hist.pc = "aggregating"
    /\ hist.k = Len(hist.sorted_timestamps)
    /\ hist' = [hist EXCEPT
          !.pc = "returned",
          !.response =
              [status |-> 200, history |-> hist.portfolio_history, error |-> None,
               data_points |-> Len(hist.portfolio_history),
               sources |-> {hist.history_data[j].source : j \in 1..Len(hist.history_data)},
               assets_without_purchase_date |->
                   LET kept == SelectSeq([j \in 1..Len(hist.history_data) |-> j],
                                  LAMBDA j : IsNone(hist.assets[hist.history_data[j].idx].purchase_date))
                   IN  [n \in 1..Len(kept) |-> hist.assets[hist.history_data[kept[n]].idx].symbol]]]
    /\ UNCHANGED <<priceVars, auxVars>>

NextHistory ==
    \/ \E a \in BatchesOf(HistoryHoldings, MaxBatch), d \in HistoryDays :
          GetPortfolioHistory(a, d)
    \/ \E i \in 1..MaxBatch, bout \in BinanceHistoryOutcomes, gout \in GeckoHistoryOutcomes :
          FetchHistory(i, bout, gout)
    \/ HistoryGathered
    \/ HistoryStep
    \/ HistoryReturn

\* one request to /portfolio/history
SpecHistory == Init /\ [][NextHistory]_vars

(***************************** properties of the history *******************)
\* the timeline timestamps the loop has gone through
Processed == 1..Len(hist.contribs)

FetchedPositions == {i \in 1..Len(hist.results) : Fetched(hist.results[i])}

\* holding i is owned at ts: it has no purchase date or was bought by then
Owned(i, ts) ==
    IsNone(hist.assets[i].purchase_date) \/ PurchaseTs(hist.assets[i]) <= ts

\* the price of the latest sample of holding i's own series at or before
\* ts, None when it has none
LatestOwnPrice(i, ts) ==
    LET prices == Val(hist.results[i]).prices
        before == {n \in 1..Len(prices) : prices[n][1] <= ts}
    IN  IF before = {} THEN None
        ELSE Some(prices[CHOOSE n \in before :
                            \A m \in before : prices[m][1] <= prices[n][1]][2])

ForwardFilled(i, k) ==
    LET ts == hist.sorted_timestamps[k]
        latest == LatestOwnPrice(i, ts)
    IN  hist.contribs[k][i] =
            IF IsNone(latest) THEN 0 ELSE hist.assets[i].amount * Val(latest)

DistinctCoinIds ==
    \A i, j \in 1..Len(hist.assets) :
        hist.assets[i].coin_id = hist.assets[j].coin_id => i = j

\* C5: at every timeline timestamp, every fetched holding that is owned then
\* contributes amount * the price of the latest sample of its series at or
\* before the timestamp, and zero when it has no such sample.
C5_ForwardFill ==
    \A k \in Processed : \A i \in FetchedPositions :
        Owned(i, hist.sorted_timestamps[k]) => ForwardFilled(i, k)

\* the forward-fill of C5 in the batches whose holdings have distinct coin_ids
C5_ForwardFillDistinctIds ==
    DistinctCoinIds => C5_ForwardFill

\* C6: a holding with a purchase timestamp p contributes zero at every
\* timeline timestamp before p, each holding by its own p, also when
\* holdings share a coin_id.
C6_PurchaseCutoff ==
    \A k \in Processed : \A i \in FetchedPositions :
        ~Owned(i, hist.sorted_timestamps[k]) => hist.contribs[k][i] = 0

\* the cutoff of C6 in the batches whose holdings have distinct coin_ids
C6_PurchaseCutoffDistinctIds ==
    DistinctCoinIds => C6_PurchaseCutoff

HistoryReturned == hist.pc = "returned" /\ Len(hist.assets) > 0

\* what the code added up at the k-th timeline timestamp
AggregateAt(k) == SumOver(hist.contribs[k], Len(hist.assets))

\* the output points that carry timestamp ts
PointsAt(ts) ==
    {a \in 1..Len(hist.portfolio_history) : hist.portfolio_history[a].timestamp = ts}

\* the holdings whose fetch failed are left out and the call succeeds with
\* the sum of what the others contribute
FailedExcluded ==
    /\ hist.response.status = 200
    /\ hist.response.error = None
    /\ \A k \in Processed :
          /\ \A i \in 1..Len(hist.assets) :
                i \notin FetchedPositions => hist.contribs[k][i] = 0
          /\ \A a \in PointsAt(hist.sorted_timestamps[k]) :
                hist.response.history[a].value = Round2(AggregateAt(k))

\* C11: with at least one series fetched the call succeeds without the
\* failed holdings; with every fetch failed the call itself fails, it does
\* not answer with a success status.
C11_HistoryPartialFailure ==
    HistoryReturned =>
        IF FetchedPositions = {}
        THEN hist.response.status >= 400
        ELSE FailedExcluded

\* the first half of C11 alone
C11_FailedHoldingsExcluded ==
    (HistoryReturned /\ FetchedPositions # {}) => FailedExcluded

\* the sampling timestamps of the fetched series
NativeTimestamps ==
    UNION {{Val(hist.results[i]).prices[n][1] : n \in 1..Len(Val(hist.results[i]).prices)} :
              i \in FetchedPositions}

Ascending(h) ==
    \A a, b \in 1..Len(h) : a < b => h[a].timestamp < h[b].timestamp

\* C16: the timestamps of the output are strictly ascending, so without
\* duplicate, and each is a sampling timestamp of a fetched series.
C16_UnifiedTimeline ==
    /\ Ascending(hist.portfolio_history)
    /\ \A a \in 1..Len(hist.portfolio_history) :
          hist.portfolio_history[a].timestamp \in NativeTimestamps
    /\ hist.pc = "returned" => hist.response.history = hist.portfolio_history

\* the samples of a Binance series and of a CoinGecko series interleaved
C16_Witness ==
    /\ hist.pc = "returned"
    /\ Len(hist.response.history) = 3
    /\ hist.response.sources = {"binance", "coingecko"}
    /\ hist.response.history[2].timestamp = 50000

EmittedIffAboveEpsilon ==
    \A k \in Processed :
        AggregateAt(k) > HISTORY_EPSILON <=> PointsAt(hist.sorted_timestamps[k]) # {}

\* C17 as stated: a point is emitted for a timestamp exactly when the
\* aggregate there exceeds 0.01, and every emitted point has value > 0.01.
C17_EmissionThreshold ==
    /\ EmittedIffAboveEpsilon
    /\ \A a \in 1..Len(hist.portfolio_history) :
          10 * hist.portfolio_history[a].value > HISTORY_EPSILON

\* C17 as amended: a point is emitted exactly when the aggregate exceeds
\* 0.01; its value is the aggregate rounded to 2 decimals, which is at least
\* 0.01 and is 0.01 itself for an aggregate that rounds down to it.
C17_EmissionThresholdRounded ==
    /\ EmittedIffAboveEpsilon
    /\ \A k \in Processed : \A a \in PointsAt(hist.sorted_timestamps[k]) :
          /\ NearestCent(AggregateAt(k), hist.portfolio_history[a].value)
          /\ 10 * hist.portfolio_history[a].value >= HISTORY_EPSILON

\* an aggregate of exactly 0.01 left out, and one of 0.012 emitted as 0.01
C17_Witness ==
    /\ hist.pc = "returned"
    /\ \E k \in Processed :
          /\ AggregateAt(k) > HISTORY_EPSILON
          /\ \E a \in PointsAt(hist.sorted_timestamps[k]) :
                10 * hist.portfolio_history[a].value = HISTORY_EPSILON

\* an aggregate of exactly 0.01, for which no point is written
C17_WitnessAtEpsilon ==
    /\ hist.pc = "returned"
    /\ \E k \in Processed :
          /\ AggregateAt(k) = HISTORY_EPSILON
          /\ PointsAt(hist.sorted_timestamps[k]) = {}

(***************************** the endpoints side by side *******************)
OrderingHoldings ==
    {[Holding(c, 5, None) EXCEPT !.purchase_date = pd] :
        c \in {XUSDT, btc}, pd \in {None, Some(60)}}
OrderingPricedHoldings == {Holding(c, 5, None) : c \in {XUSDT, btc}}

\* one request, to /portfolio/calculate or to /portfolio/history, from a
\* cold cache
NextOrdering ==
    \/ \E a \in BatchesOf(OrderingPricedHoldings, MaxBatch) :
          hist.pc = "idle" /\ CalculatePortfolio(a)
    \/ CalculatePortfolioReturn
    \/ \E i \in 1..MaxBatch, out \in BinanceOutcomes : BinanceResponse(i, out)
    \/ \E i \in 1..MaxBatch : GeckoWake(i)
    \/ \E i \in 1..MaxBatch, out \in GeckoOutcomes : GeckoResponse(i, out)
    \/ \E a \in BatchesOf(OrderingHoldings, MaxBatch), d \in HistoryDays :
          nreq = MaxRequests - 1 /\ GetPortfolioHistory(a, d)
    \/ \E i \in 1..MaxBatch, bout \in BinanceHistoryOutcomes, gout \in GeckoHistoryOutcomes :
          FetchHistory(i, bout, gout)
    \/ HistoryGathered
    \/ HistoryStep
    \/ HistoryReturn

SpecOrdering == InitValuate /\ [][NextOrdering]_vars

C14_WitnessRecorded ==
    /\ hist.pc = "aggregating"
    /\ Len(hist.assets) = 2
    /\ hist.assets[1].coin_id # hist.assets[2].coin_id
    /\ hist.assets[1].purchase_date # hist.assets[2].purchase_date
    /\ Len(hist.purchase_writes) = 2

RoutingCoinIds == {XUSDT, btc, usdtx}

RoutingHoldings == {[Holding(c, 5, None) EXCEPT !.purchase_date = None] : c \in RoutingCoinIds}

\* GET /price/{coin_id} requests with the clock moving, or one request to
\* /portfolio/history
NextRouting ==
    \/ \E c \in RoutingCoinIds : hist.pc = "idle" /\ GetPriceEndpoint(c)
    \/ GetPriceReturn
    \/ \E i \in 1..MaxBatch, out \in BinanceOutcomes : BinanceResponse(i, out)
    \/ \E i \in 1..MaxBatch : GeckoWake(i)
    \/ \E i \in 1..MaxBatch, out \in GeckoOutcomes : GeckoResponse(i, out)
    \/ \E d \in ClockSteps : hist.pc = "idle" /\ Advance(d)
    \/ \E a \in BatchesOf(RoutingHoldings, MaxBatch), d \in HistoryDays :
          nreq = 0 /\ nadv = 0 /\ GetPortfolioHistory(a, d)
    \/ \E i \in 1..MaxBatch, bout \in BinanceHistoryOutcomes, gout \in GeckoHistoryOutcomes :
          FetchHistory(i, bout, gout)
    \/ HistoryGathered
    \/ HistoryStep
    \/ HistoryReturn

SpecRouting == Init /\ [][NextRouting]_vars

\* the identifiers that do not end, in any case, in USDT or BUSD
FallbackClassified == {btc, usdtx}

\* C20: for an identifier outside the Primary naming convention no call to
\* the Primary provider is made, on the price path (cold or warm cache,
\* Fallback serving or failing) and on the history path.
C20_AsymmetricRouting ==
    /\ \A t \in Resolutions :
          t.coin_id \in FallbackClassified =>
              /\ \A k \in 1..Len(t.trace) :
                    t.trace[k] \notin {"primary", "primary_http", "primary_hit",
                                       "primary_ok", "primary_fail"}
              /\ t.data.source # "binance"
    /\ \A i \in 1..Len(hist.calls) :
          hist.assets[i].coin_id \in FallbackClassified =>
              /\ \A n \in 1..Len(hist.calls[i]) : hist.calls[i][n] # "binance"
              /\ ~IsNone(hist.results[i]) => Val(hist.results[i]).source # "binance"

\* usdtx resolved a second time after Fallback had failed the first time
C20_Witness ==
    /\ prev.coin_id = usdtx
    /\ prev.status = "error"
    /\ Len(tasks) = 1
    /\ tasks[1].coin_id = usdtx
    /\ tasks[1].trace = <<"fallback", "fallback_http", "fallback_ok">>

\* on the history path: the CoinGecko fetch of usdtx failed and nothing
\* else was tried
C20_WitnessHistory ==
    /\ hist.pc = "returned"
    /\ \E i \in 1..Len(hist.assets) :
          /\ hist.assets[i].coin_id = usdtx
          /\ hist.calls[i] = <<"coingecko">>
          /\ IsNone(hist.results[i])

(***************************** GET /binance/symbols *************************)
\* main.py:469-477: the request arrives; answered at once from the cache, or
\* the call to exchangeInfo is issued
GetBinanceSymbols ==
    /\ symbols.pc # "http"
    /\ symbols.n < MaxRequests
    /\ symbols' =
          IF SymbolCacheFresh
          THEN [symbols EXCEPT
                   !.pc = "returned", !.n = @ + 1, !.status = 200,
                   !.body = symbol_info_cache[SymbolsKey].data,
                   !.hit_age = Some(now - symbol_info_cache[SymbolsKey].timestamp)]
          ELSE [symbols EXCEPT
                   !.pc = "http", !.n = @ + 1, !.ncalls = @ + 1, !.status = 0,
                   !.body = NoDirectory, !.hit_age = None]
    /\ UNCHANGED <<priceVars, hist, history_cache, symbol_info_cache, klines, metrics,
                 djangoVars>>

\* main.py:479-510: exchangeInfo answers; the directory is cached and
\* returned, or HTTPException(503) is raised
SymbolsResponse(out) ==
    /\ symbols.pc = "http"
    /\ IF out.kind = "ok"
       THEN LET result == BinanceSymbolsResult(out.symbols) IN
            /\ symbol_info_cache' = CachePut(symbol_info_cache, SymbolsKey, result, now)
            /\ symbols' = [symbols EXCEPT !.pc = "returned", !.status = 200,
                                          !.body = result]
       ELSE /\ symbols' = [symbols EXCEPT !.pc = "returned", !.status = 503]
            /\ UNCHANGED symbol_info_cache
    /\ UNCHANGED <<priceVars, hist, history_cache, klines, metrics,
                 djangoVars>>

NextSymbols ==
    \/ GetBinanceSymbols
    \/ \E out \in SymbolsOutcomes : SymbolsResponse(out)
    \/ \E d \in ClockSteps : Advance(d)

\* reads of the symbol directory while time passes
SpecSymbols == Init /\ [][NextSymbols]_vars

\* C21: the cached symbol directory is served only while its age is below
\* the 24 h TTL; a read at an age of 24 h or more calls exchangeInfo again.
C21_DirectoryExpiresAt24h ==
    (symbols.pc = "returned" /\ ~IsNone(symbols.hit_age)) =>
        Val(symbols.hit_age) < SYMBOL_CACHE_DURATION * MS_PER_SECOND

(***************************** klines requests ******************************)
MaxDays == 1001

\* main.py:263-300: one call of fetch_binance_history answered with status 200
FetchBinanceHistory ==
    /\ klines.pc = "called"
    /\ klines' =
          LET interval == KlinesInterval(klines.days)
              needed == CandlesInWindow(klines.days, interval, klines.aligned)
          IN  [klines EXCEPT !.pc = "answered", !.interval = interval,
                             !.needed = needed,
                             !.returned = CandlesReturned(needed)]
    /\ UNCHANGED <<priceVars, hist, history_cache, symbol_info_cache, symbols, metrics,
                 djangoVars>>

\* a call for a window of 1..MaxDays days, startTime on a candle boundary or not
InitKlines ==
    /\ now = 0
    /\ price_cache = <<>>
    /\ tasks = <<>>
    /\ req = Idle
    /\ response = NoResponse
    /\ prev = NoPrev
    /\ nreq = 0
    /\ nadv = 0
    /\ hist = NoHistory
    /\ history_cache = <<>>
    /\ symbol_info_cache = <<>>
    /\ symbols = NoSymbols
    /\ metrics = NoMetrics
    /\ InitDjango
    /\ \E days \in 1..MaxDays, aligned \in BOOLEAN :
          klines = [NoKlines EXCEPT !.pc = "called", !.days = days,
                                    !.aligned = aligned]

NextKlines == FetchBinanceHistory

SpecKlines == InitKlines /\ [][NextKlines]_vars

\* C27: for every window of days >= 1 the chosen interval needs at most 1000
\* candles, so the one request with limit 1000 returns every candle of the
\* window.
C27_IntervalWithinLimit ==
    klines.pc = "answered" =>
        /\ klines.needed <= KLINES_LIMIT
        /\ klines.returned = klines.needed

(***************************** advanced metrics calls ***********************)
MaxTrades == 3
TradePnls == {-50, 0, 100}
TradeDates == {1, 2}
Trades == {Trade(p, d) : p \in TradePnls, d \in TradeDates}

\* analytics_service/main.py:27-187: the call returns or raises
CalculateAdvancedMetrics ==
    /\ metrics.pc = "called"
    /\ LET result == calculate_advanced_metrics(metrics.trades_data) IN
       metrics' = [metrics EXCEPT
                      !.pc = IF result.kind = "dict" THEN "returned" ELSE "raised",
                      !.result = result]
    /\ UNCHANGED <<priceVars, hist, history_cache, symbol_info_cache, symbols, klines,
                 djangoVars>>

\* a call with any list of at most MaxTrades trades
InitMetrics ==
    /\ now = 0
    /\ price_cache = <<>>
    /\ tasks = <<>>
    /\ req = Idle
    /\ response = NoResponse
    /\ prev = NoPrev
    /\ nreq = 0
    /\ nadv = 0
    /\ hist = NoHistory
    /\ history_cache = <<>>
    /\ symbol_info_cache = <<>>
    /\ symbols = NoSymbols
    /\ klines = NoKlines
    /\ InitDjango
    /\ \E trades_data \in BatchesOf(Trades, MaxTrades) :
          metrics = [NoMetrics EXCEPT !.pc = "called", !.trades_data = trades_data]

NextMetrics == CalculateAdvancedMetrics

SpecMetrics == InitMetrics /\ [][NextMetrics]_vars

\* C30: for every non-empty trade list calculate_advanced_metrics returns
\* its dictionary and raises nothing, also when no trade is a winner and
\* when every trade is a winner.
C30_MetricsNeverRaise ==
    (metrics.pc # "called" /\ Len(metrics.trades_data) > 0) =>
        /\ metrics.pc = "returned"
        /\ metrics.result.kind = "dict"
        /\ ~metrics.result.empty

(***************************** GET /stats/overall ***************************)
\* analytics_service/main.py:210-217: the rows come ORDER BY trade_date ASC
OrderedByTradeDate(data) ==
    \A i \in 1..Len(data) : \A j \in i..Len(data) :
        data[i].trade_date <= data[j].trade_date

\* analytics_service/main.py:193-306: the request is answered or fails
GetOverallStats ==
    /\ metrics.pc = "requested"
    /\ LET stats == get_overall_stats(metrics.trades_data) IN
       metrics' = [metrics EXCEPT
                      !.pc = IF stats.kind = "ValueError" THEN "raised"
                             ELSE "answered",
                      !.result = stats.advanced_metrics,
                      !.stats = stats]
    /\ UNCHANGED <<priceVars, hist, history_cache, symbol_info_cache, symbols, klines,
                 djangoVars>>

\* a request over any table of at most MaxTrades trades
InitStats ==
    /\ now = 0
    /\ price_cache = <<>>
    /\ tasks = <<>>
    /\ req = Idle
    /\ response = NoResponse
    /\ prev = NoPrev
    /\ nreq = 0
    /\ nadv = 0
    /\ hist = NoHistory
    /\ history_cache = <<>>
    /\ symbol_info_cache = <<>>
    /\ symbols = NoSymbols
    /\ klines = NoKlines
    /\ InitDjango
    /\ \E data \in {d \in BatchesOf(Trades, MaxTrades) : OrderedByTradeDate(d)} :
          metrics = [NoMetrics EXCEPT !.pc = "requested", !.trades_data = data]

NextStats == GetOverallStats

SpecStats == InitStats /\ [][NextStats]_vars

\* C33: for every trade list the avg_loss that get_overall_stats reports
\* equals the mean pnl of the trades with pnl < 0, which is the avg_loss of
\* calculate_advanced_metrics for the same list, also when the list has
\* break-even trades; and wins + losses counts every trade once.
C33_AvgLossAgrees ==
    (metrics.pc = "answered" /\ metrics.stats.kind = "stats") =>
        /\ metrics.stats.avg_loss_num * metrics.result.avg_loss_den
              = metrics.result.avg_loss_num * metrics.stats.avg_loss_den
        /\ metrics.stats.wins + metrics.stats.losses = Len(metrics.trades_data)

(***************************** Trade: edits and saves ***********************)
\* core/serializers.py:21-30: a request or the shell assigns one of the
\* writable fields of the instance (pnl and pnl_percent are read-only)
TradeEdit ==
    /\ trade.pc # "idle"
    /\ \/ \E v \in Directions : trade' = [trade EXCEPT !.pc = "edited", !.inst.direction = v]
       \/ \E v \in EntryPrices : trade' = [trade EXCEPT !.pc = "edited", !.inst.entry_price = v]
       \/ \E v \in ExitPrices : trade' = [trade EXCEPT !.pc = "edited", !.inst.exit_price = v]
       \/ \E v \in PositionSizes : trade' = [trade EXCEPT !.pc = "edited", !.inst.position_size = v]
       \/ \E v \in TradeFees : trade' = [trade EXCEPT !.pc = "edited", !.inst.fees = v]
    /\ UNCHANGED <<priceVars, hist, history_cache, symbol_info_cache, symbols, klines,
                   metrics, summary, migration>>

\* core/models.py:49-75: save computes the P&L and writes the row.  Every pnl
\* and pnl_percent of these domains has at most two decimal places, so the
\* two-decimal columns store them as they are.
TradeSave ==
    /\ trade.pc # "idle"
    /\ LET saved == save(trade.inst) IN
       trade' = [trade EXCEPT
                    !.pc = "saved", !.inst = saved, !.row = Some(saved),
                    !.computed = @ \/ HasClosingData(trade.inst)]
    /\ UNCHANGED <<priceVars, hist, history_cache, symbol_info_cache, symbols, klines,
                   metrics, summary, migration>>

\* a new trade with any values of its fields, not saved yet
InitTrade ==
    /\ now = 0
    /\ price_cache = <<>>
    /\ tasks = <<>>
    /\ req = Idle
    /\ response = NoResponse
    /\ prev = NoPrev
    /\ nreq = 0
    /\ nadv = 0
    /\ hist = NoHistory
    /\ history_cache = <<>>
    /\ symbol_info_cache = <<>>
    /\ symbols = NoSymbols
    /\ klines = NoKlines
    /\ metrics = NoMetrics
    /\ summary = NoSummary
    /\ migration = NoMigration
    /\ \E direction \in Directions, entry_price \in EntryPrices,
          exit_price \in ExitPrices, position_size \in PositionSizes,
          fees \in TradeFees :
          trade = [NoTrade EXCEPT
                      !.pc = "new",
                      !.inst = NewTrade(direction, entry_price, exit_price,
                                        position_size, fees)]

NextTrade == TradeEdit \/ TradeSave

SpecTrade == InitTrade /\ [][NextTrade]_vars

(***************************** GET portfolio_summary ************************)
MaxPurchases == 3

\* core/views.py:89-159: the request is answered; the portfolio service
\* answers or fails
GetPortfolioSummary(service) ==
    /\ summary.pc = "requested"
    /\ summary' = [summary EXCEPT
                      !.pc = "answered",
                      !.response = portfolio_summary(summary.assets, service)]
    /\ UNCHANGED <<priceVars, hist, history_cache, symbol_info_cache, symbols, klines,
                   metrics, trade, migration>>

\* a request of a user with any rows, at most MaxPurchases of them
InitSummary ==
    /\ now = 0
    /\ price_cache = <<>>
    /\ tasks = <<>>
    /\ req = Idle
    /\ response = NoResponse
    /\ prev = NoPrev
    /\ nreq = 0
    /\ nadv = 0
    /\ hist = NoHistory
    /\ history_cache = <<>>
    /\ symbol_info_cache = <<>>
    /\ symbols = NoSymbols
    /\ klines = NoKlines
    /\ metrics = NoMetrics
    /\ trade = NoTrade
    /\ migration = NoMigration
    /\ \E assets \in BatchesOf(CryptoAssets, MaxPurchases) :
          summary = [NoSummary EXCEPT !.pc = "requested", !.assets = assets]

NextSummary == \E service \in {"ok", "failed"} : GetPortfolioSummary(service)

SpecSummary == InitSummary /\ [][NextSummary]_vars

(***************************** runs of migrate_to_binance.py ****************)
MaxRows == 2
MaxRuns == 2

\* identifiers that are no key of the mapping: a Binance pair, a BUSD pair
\* in lower case, a CoinGecko id and a key written with a capital
MigrationOtherIds ==
    {<<"B", "T", "C", "U", "S", "D", "T">>, xbusd,
     <<"p", "e", "p", "e">>, <<"B", "i", "t", "c", "o", "i", "n">>}

MigrationCoinIds == DOMAIN COIN_MAPPING \cup MigrationOtherIds

\* migrate_to_binance.py:29-45: the script runs from its first line to its
\* last
RunMigration ==
    /\ Len(migration.runs) < MaxRuns
    /\ LET run == migrate_to_binance(migration.assets) IN
       migration' = [assets |-> run.assets,
                     runs |-> Append(migration.runs,
                                     [migrated |-> run.migrated,
                                      skipped |-> run.skipped])]
    /\ UNCHANGED <<priceVars, hist, history_cache, symbol_info_cache, symbols, klines,
                   metrics, trade, summary>>

\* a table of at most MaxRows assets with any coin_id, before the first run
InitMigration ==
    /\ now = 0
    /\ price_cache = <<>>
    /\ tasks = <<>>
    /\ req = Idle
    /\ response = NoResponse
    /\ prev = NoPrev
    /\ nreq = 0
    /\ nadv = 0
    /\ hist = NoHistory
    /\ history_cache = <<>>
    /\ symbol_info_cache = <<>>
    /\ symbols = NoSymbols
    /\ klines = NoKlines
    /\ metrics = NoMetrics
    /\ trade = NoTrade
    /\ summary = NoSummary
    /\ \E ids \in BatchesOf(MigrationCoinIds, MaxRows) :
          migration = [NoMigration EXCEPT
                          !.assets = [i \in 1..Len(ids) |->
                                         [symbol |-> "COIN", coin_id |-> ids[i]]]]

NextMigration == RunMigration

SpecMigration == InitMigration /\ [][NextMigration]_vars

(***************************** properties: caches and routing ***************)
\* task i is answered from the cache in this step
ServedFromCache(i) ==
    /\ i \in DOMAIN tasks'
    /\ i \notin DOMAIN tasks \/ tasks[i].pc # "done"
    /\ tasks'[i].pc = "done"
    /\ Len(tasks'[i].trace) > 0
    /\ tasks'[i].trace[Len(tasks'[i].trace)] \in {"primary_hit", "fallback_hit"}

\* the upstream call of task i fails in this step
UpstreamFails(i) ==
    /\ i \in DOMAIN tasks
    /\ i \in DOMAIN tasks'
    /\ tasks[i].pc \in {"binance_http", "gecko_http"}
    /\ Len(tasks'[i].trace) > Len(tasks[i].trace)
    /\ tasks'[i].trace[Len(tasks[i].trace) + 1] \in {"primary_fail", "fallback_fail"}

\* task i reads an entry of the cache in this step and does not serve it
MissesOnEntry(i) ==
    /\ i \in DOMAIN tasks'
    /\ i \notin DOMAIN tasks \/ Len(tasks[i].trace) < Len(tasks'[i].trace)
    /\ \/ /\ tasks'[i].pc = "binance_http"
          /\ BinanceKey(Upper(tasks'[i].coin_id)) \in DOMAIN price_cache
       \/ /\ tasks'[i].pc = "gecko_sleep"
          /\ GeckoKey(tasks'[i].coin_id) \in DOMAIN price_cache

\* C22: a resolution served from the cache, a failing upstream call and a
\* read that finds an expired entry all leave the cache as it was; an entry
\* is never removed, and it changes only when a fetch for its key succeeds.
C22_CacheFrame ==
    [][/\ \A i \in DOMAIN tasks' :
              (ServedFromCache(i) \/ UpstreamFails(i) \/ MissesOnEntry(i)) =>
                  price_cache' = price_cache
       /\ \A k \in DOMAIN price_cache :
              /\ k \in DOMAIN price_cache'
              /\ price_cache'[k] # price_cache[k] =>
                    \E i \in DOMAIN tasks :
                        FetchSucceeds(i) /\ KeyOf(tasks'[i].data) = k]_vars

\* the entry of btc, expired, was read and the call that followed failed:
\* the entry is still there
C22_Witness ==
    /\ Len(tasks) = 1
    /\ tasks[1].coin_id = btc
    /\ tasks[1].status = "error"
    /\ Has(tasks[1], "fallback_fail")
    /\ GeckoKey(btc) \in DOMAIN price_cache
    /\ now - price_cache[GeckoKey(btc)].timestamp
          >= GECKO_PRICE_CACHE_DURATION * MS_PER_SECOND

\* main.py:277: the start of the requested window, now - timedelta(days)
WindowStart == now - hist.days * SECONDS_PER_DAY * MS_PER_SECOND

\* C23: a fetched holding with no purchase timestamp contributes amount *
\* forward-filled price at every timeline timestamp inside the requested
\* window, and nothing at a timestamp before the window start.
C23_DefaultOwnershipStart ==
    \A k \in Processed : \A i \in FetchedPositions :
        IsNone(hist.assets[i].purchase_date) =>
            IF hist.sorted_timestamps[k] >= WindowStart
            THEN ForwardFilled(i, k)
            ELSE hist.contribs[k][i] = 0

\* the default ownership start of C23 in the batches whose holdings have
\* distinct coin_ids
C23_DefaultOwnershipStartDistinctIds ==
    DistinctCoinIds => C23_DefaultOwnershipStart

\* every fetched holding was bought after the last timestamp of the timeline
AllBoughtAfterTimeline ==
    /\ FetchedPositions # {}
    /\ \A i \in FetchedPositions :
          /\ ~IsNone(hist.assets[i].purchase_date)
          /\ \A k \in 1..Len(hist.sorted_timestamps) :
                PurchaseTs(hist.assets[i]) > hist.sorted_timestamps[k]

\* C24: when a series was fetched and every fetched holding's purchase
\* timestamp is later than every timeline timestamp, the call succeeds with
\* an empty history list and no error.
C24_EmptySuccessfulHistory ==
    (HistoryReturned /\ AllBoughtAfterTimeline) =>
        /\ hist.response.status = 200
        /\ hist.response.history = <<>>
        /\ hist.response.data_points = 0
        /\ IsNone(hist.response.error)

\* two holdings bought at 200 s, one fetched from each provider, over a
\* timeline that ends at 100 s
C24_Witness ==
    /\ HistoryReturned
    /\ AllBoughtAfterTimeline
    /\ Cardinality(FetchedPositions) = 2
    /\ hist.response.sources = {"binance", "coingecko"}
    /\ Len(hist.sorted_timestamps) = 3
    /\ hist.response.history = <<>>

(***************************** fan-out and join ******************************)
\* what the service does by itself once a request is in: upstream calls
\* return or time out, sleeps end, the handlers run on
JoinProgress ==
    \/ CalculatePortfolioReturn
    \/ \E i \in 1..MaxBatch, out \in BinanceOutcomes : BinanceResponse(i, out)
    \/ \E i \in 1..MaxBatch : GeckoWake(i)
    \/ \E i \in 1..MaxBatch, out \in GeckoOutcomes : GeckoResponse(i, out)
    \/ \E i \in 1..MaxBatch, bout \in BinanceHistoryOutcomes, gout \in GeckoHistoryOutcomes :
          FetchHistory(i, bout, gout)
    \/ HistoryGathered
    \/ HistoryStep
    \/ HistoryReturn

\* one request, to /portfolio/calculate or to /portfolio/history
NextJoin ==
    \/ \E a \in BatchesOf(OrderingPricedHoldings, MaxBatch) :
          hist.pc = "idle" /\ CalculatePortfolio(a)
    \/ \E a \in BatchesOf(OrderingPricedHoldings, MaxBatch), d \in HistoryDays :
          nreq = MaxRequests - 1 /\ GetPortfolioHistory(a, d)
    \/ JoinProgress

\* one request whose upstream calls all return or time out
SpecJoin == InitValuate /\ [][NextJoin]_vars /\ WF_vars(JoinProgress)

\* a fetch of the request is started and has not terminated
FetchInFlight ==
    \/ \E i \in DOMAIN tasks : tasks[i].pc # "done"
    \/ hist.pc = "fetching" /\ hist.fetched # 1..Len(hist.assets)

\* the request has returned
Joined == ValuateReturned \/ hist.pc = "returned"

\* C25: in valuate and in history the response is computed only after every
\* fetch started for the request has terminated, no fetch of the request is
\* in flight once it has returned, and every started fetch terminates.
C25_StructuredJoin ==
    /\ [](/\ ValuateReturned =>
                /\ Len(response.results) = Len(response.assets)
                /\ \A i \in 1..Len(response.results) :
                      response.results[i].pc = "done"
          /\ req.kind = "idle" => tasks = <<>>
          /\ hist.pc \in {"aggregating", "returned"} =>
                hist.fetched = 1..Len(hist.assets))
    /\ FetchInFlight ~> Joined

\* the valuation returned after a Primary call that failed over and slept,
\* beside a Fallback fetch that failed
C25_Witness ==
    /\ ValuateReturned
    /\ Len(response.results) = 2
    /\ Has(response.results[1], "primary_fail")
    /\ Has(response.results[1], "fallback_ok")
    /\ response.results[2].status = "error"

\* the history returned after two fetches, one of which failed
C25_WitnessHistory ==
    /\ hist.pc = "returned"
    /\ Len(hist.assets) = 2
    /\ IsNone(hist.results[1])
    /\ Fetched(hist.results[2])

(***************************** per-upstream throttle **************************)
\* the price resolutions of the request in flight and of the last response
RequestResolutions ==
    {tasks[i] : i \in DOMAIN tasks}
        \cup {response.results[i] : i \in DOMAIN response.results}

\* C26: no call to the Primary provider waits for an interval: a Primary
\* price call is sent at the time its resolution starts and a Primary
\* history call is sent without sleep, whatever Fallback calls are waiting
\* or in flight beside it.
C26_PrimaryNeverThrottled ==
    /\ \A t \in RequestResolutions :
          Has(t, "primary_http") => t.binance_call_at = Some(t.started_at)
    /\ \A i \in 1..Len(hist.calls) : \A n \in 1..Len(hist.calls[i]) :
          hist.calls[i][n] = "binance" => hist.delays[i][n] = 0

\* a Fallback resolution is in its sleep while the Primary call issued in
\* the same batch is already in flight
C26_Witness ==
    /\ Len(tasks) = 2
    /\ tasks[1].pc = "gecko_sleep"
    /\ tasks[1].wake > now
    /\ tasks[2].pc = "binance_http"
    /\ tasks[2].binance_call_at = Some(now)

\* on the history path: a Primary call beside a Fallback call that slept
C26_WitnessHistory ==
    /\ hist.pc = "returned"
    /\ Len(hist.calls) = 2
    /\ hist.calls[1] = <<"coingecko">>
    /\ hist.delays[1] = <<HISTORY_GECKO_SLEEP_MS>>
    /\ hist.calls[2] = <<"binance">>
    /\ hist.delays[2] = <<0>>

(***************************** history failover ******************************)
\* the calls of the fetch at position i to a provider
CallsTo(i, provider) ==
    {n \in 1..Len(hist.calls[i]) : hist.calls[i][n] = provider}

\* C28: a history fetch calls Primary first exactly when the identifier is
\* Primary-classified, calls Fallback exactly when Primary was not tried or
\* returned no points, tags the series with the provider that supplied it,
\* and returns no series exactly when every provider it tried returned no
\* points; a holding without series is left out of the aggregation.
C28_HistoryFailover ==
    \A i \in hist.fetched :
        LET calls == hist.calls[i]
            answers == hist.answers[i]
            result == hist.results[i]
        IN  /\ Len(calls) > 0
            /\ calls[1] = "binance" <=> hist.assets[i].coin_id \in PrimaryClassified
            /\ CallsTo(i, "binance") \subseteq {1}
            /\ CallsTo(i, "coingecko") # {} <=>
                  \/ CallsTo(i, "binance") = {}
                  \/ \A n \in CallsTo(i, "binance") : answers[n] = 0
            /\ Cardinality(CallsTo(i, "coingecko")) <= 1
            /\ IsNone(result) <=> \A n \in 1..Len(calls) : answers[n] = 0
            /\ ~IsNone(result) =>
                  /\ calls[Len(calls)] = Val(result).source
                  /\ answers[Len(calls)] = Len(Val(result).prices)
                  /\ Val(result).coin_id = hist.assets[i].coin_id
            /\ (IsNone(result) /\ hist.pc = "aggregating") =>
                  \A j \in 1..Len(hist.history_data) : hist.history_data[j].idx # i

\* Primary returned no points for XUSDT and Fallback supplied the series,
\* beside a holding for which both providers returned no points
C28_Witness ==
    /\ hist.pc = "aggregating"
    /\ Len(hist.assets) = 2
    /\ hist.assets[1].coin_id = XUSDT
    /\ hist.calls[1] = <<"binance", "coingecko">>
    /\ hist.answers[1] = <<0, 2>>
    /\ Val(hist.results[1]).source = "coingecko"
    /\ hist.assets[2].coin_id = XUSDT
    /\ hist.answers[2] = <<0, 0>>
    /\ IsNone(hist.results[2])

(***************************** history requests in sequence *******************)
RepeatHoldings ==
    {[Holding(XUSDT, 5, None) EXCEPT !.purchase_date = pd] : pd \in {None, Some(60)}}

\* the requests: no holding, or one
RepeatBatches == {<<>>} \cup {<<h>> : h \in RepeatHoldings}

\* what a finished history request was asked, was answered by the upstreams,
\* and returned
HistorySummary(h) ==
    [assets |-> h.assets, days |-> h.days, results |-> h.results,
     calls |-> h.calls, answers |-> h.answers, response |-> h.response]

\* the handler has returned and the service takes the next request
HistoryNextRequest ==
    /\ hist.pc = "returned"
    /\ hist.n < MaxRequests
    /\ hist' = [hist EXCEPT !.pc = "idle", !.last = Some(HistorySummary(hist))]
    /\ UNCHANGED <<priceVars, auxVars>>

\* history requests one after the other, with GET /price and GET
\* /binance/symbols requests that fill the caches between them
NextRepeat ==
    \/ hist.pc \in {"idle", "returned"} /\ GetPriceEndpoint(XUSDT)
    \/ GetPriceReturn
    \/ \E i \in 1..MaxBatch, out \in BinanceOutcomes : BinanceResponse(i, out)
    \/ \E i \in 1..MaxBatch : GeckoWake(i)
    \/ \E i \in 1..MaxBatch, out \in GeckoOutcomes : GeckoResponse(i, out)
    \/ \E a \in RepeatBatches, d \in HistoryDays :
          req.kind = "idle" /\ GetPortfolioHistory(a, d)
    \/ \E i \in 1..MaxBatch, bout \in BinanceHistoryOutcomes, gout \in GeckoHistoryOutcomes :
          FetchHistory(i, bout, gout)
    \/ HistoryGathered
    \/ HistoryStep
    \/ HistoryReturn
    \/ HistoryNextRequest
    \/ hist.pc = "idle" /\ hist.n > 0 /\ req.kind = "idle" /\ nreq > 0
          /\ GetBinanceSymbols
    \/ \E out \in SymbolsOutcomes : SymbolsResponse(out)

SpecRepeat == Init /\ [][NextRepeat]_vars

\* the request before asked the same and the upstreams answered the same
SameAsLast ==
    /\ ~IsNone(hist.last)
    /\ Val(hist.last).assets = hist.assets
    /\ Val(hist.last).days = hist.days
    /\ Val(hist.last).results = hist.results
    /\ Val(hist.last).calls = hist.calls
    /\ Val(hist.last).answers = hist.answers

\* C29: the history handler never writes a cache, history_cache stays
\* empty, and the result of a request is that of the request before whenever
\* the holdings and the upstream answers are the same, whatever price_cache
\* holds by then.
C29_HistoryUncached ==
    /\ [](history_cache = <<>>)
    /\ []((hist.pc = "returned" /\ SameAsLast) =>
              hist.response = Val(hist.last).response)
    /\ [][hist' # hist =>
              /\ price_cache' = price_cache
              /\ history_cache' = history_cache
              /\ symbol_info_cache' = symbol_info_cache]_vars

\* the same request answered twice the same, price_cache and
\* symbol_info_cache having been filled in between
C29_Witness ==
    /\ hist.pc = "returned"
    /\ SameAsLast
    /\ Len(hist.assets) = 1
    /\ Len(hist.response.history) > 0
    /\ Val(hist.last).response.history = hist.response.history
    /\ hist.n = 2
    /\ nreq = 1
    /\ BinanceKey(XUSDT) \in DOMAIN price_cache
    /\ SymbolsKey \in DOMAIN symbol_info_cache

(***************************** properties of the metrics **********************)
\* the call has finished, by returning or by raising, on a non-empty list
MetricsComputed == metrics.pc # "called" /\ Len(metrics.trades_data) > 0

\* the trades of the call in trade_date order
InDateOrder == SortedByDate(metrics.trades_data)

\* the greatest element of a non-empty finite set of integers
Greatest(S) == CHOOSE m \in S : \A n \in S : n <= m

\* the length of the longest run of consecutive trades, in trade_date
\* order, that are all wins (win = TRUE) or all non-wins (win = FALSE)
LongestRun(win) ==
    LET s == InDateOrder IN
    Greatest({0} \cup
        {n \in 1..Len(s) :
            \E i \in 1..Len(s) :
                /\ i + n - 1 <= Len(s)
                /\ \A k \in i..(i + n - 1) : (s[k].pnl > 0) = win})

\* C31: max_win_streak is the length of the longest run of consecutive
\* trades, in trade_date order, with pnl > 0, and max_loss_streak that of the
\* longest run with pnl <= 0, the run that ends at the last trade included.
C31_Streaks ==
    MetricsComputed =>
        /\ metrics.result.max_win_streak = LongestRun(TRUE)
        /\ metrics.result.max_loss_streak = LongestRun(FALSE)

\* the dictionary was returned for trades given out of date order whose
\* longest run is the losing run, with a break-even trade, that ends at the
\* last trade
C31_Witness ==
    /\ metrics.pc = "returned"
    /\ metrics.trades_data = <<Trade(-50, 2), Trade(100, 1), Trade(0, 2)>>
    /\ metrics.result.max_win_streak = 1
    /\ metrics.result.max_loss_streak = 2

\* the differences between two values of the equity curve
EquityDrops ==
    LET equity == EquityCurve(metrics.trades_data) IN
    {equity[i] - equity[j] : i \in 1..Len(equity), j \in 1..Len(equity)}

\* C32: max_drawdown is never negative and is the largest drop of the equity
\* curve (the running sum of pnl in trade_date order) from a position i to a
\* position j >= i.
C32_MaxDrawdown ==
    MetricsComputed =>
        LET equity == EquityCurve(metrics.trades_data)
            drops == {d \in EquityDrops :
                        \E i \in 1..Len(equity) : \E j \in i..Len(equity) :
                            d = equity[i] - equity[j]}
        IN  /\ metrics.result.max_drawdown >= 0
            /\ metrics.result.max_drawdown = Greatest(drops)

\* the dictionary was returned for an equity curve -0.50, 0.50, 0.00 that
\* starts below zero: the drawdown is the drop from the peak 0.50
C32_Witness ==
    /\ metrics.pc = "returned"
    /\ EquityCurve(metrics.trades_data) = <<-50, 50, 0>>
    /\ metrics.result.max_drawdown = 50

(***************************** properties of Trade.save *********************)
\* exit_price, entry_price and position_size are all set and non-zero
AllSetAndNonZero(t) ==
    /\ t.exit_price # None
    /\ t.exit_price # Some(0)
    /\ t.entry_price # 0
    /\ t.position_size # 0

\* the stored row r is the trade t taken the other way: one is LONG, the
\* other SHORT, with the same entry, exit, size and fees
ReverseOf(r, t) ==
    /\ {r.direction, t.direction} = {"LONG", "SHORT"}
    /\ r.entry_price = t.entry_price
    /\ r.exit_price = t.exit_price
    /\ r.position_size = t.position_size
    /\ r.fees = t.fees

\* C34: a save of a trade whose exit_price, entry_price and position_size are
\* all set and non-zero leaves pnl = (exit - entry) * size - fees for LONG
\* and (entry - exit) * size - fees for any other direction; is_winner is
\* true exactly when that value is > 0; and when the trade saved before was
\* the same trade in the opposite direction, the two pnl sum to -2 * fees.
C34_SavePnl ==
    [][(trade'.pc = "saved" /\ AllSetAndNonZero(trade.inst)) =>
          LET t == trade.inst
              gain == (Val(t.exit_price) - t.entry_price) * t.position_size
              expected == IF t.direction = "LONG" THEN gain - t.fees * CENT
                          ELSE (0 - gain) - t.fees * CENT
          IN  /\ trade'.inst.pnl = expected
              /\ Val(trade'.row).pnl = expected
              /\ is_winner(trade'.inst) <=> expected > 0
              /\ (trade.row # None /\ ReverseOf(Val(trade.row), t)) =>
                    Val(trade.row).pnl + trade'.inst.pnl = 0 - 2 * t.fees * CENT
      ]_vars

\* a short trade from 1.0000 to 0.5000, size 2, fees 1.00 was saved: its
\* pnl is 0.00 and it is not a winner
C34_Witness ==
    /\ trade.pc = "saved"
    /\ trade.inst.direction = "SHORT"
    /\ trade.inst.entry_price = 10000
    /\ trade.inst.exit_price = Some(5000)
    /\ trade.inst.position_size = 2
    /\ trade.inst.fees = 100
    /\ trade.inst.pnl = 0
    /\ ~is_winner(trade.inst)

\* C35: a save of a trade whose exit_price, entry_price or position_size is
\* unset or zero leaves pnl and pnl_percent as they were, so a trade that was
\* closed keeps the values of the earlier save, and a trade that no save has
\* found closed has pnl = 0 and pnl_percent = 0.
C35_SaveFrame ==
    [][/\ (trade'.pc = "saved" /\ ~AllSetAndNonZero(trade.inst)) =>
             /\ trade'.inst.pnl = trade.inst.pnl
             /\ trade'.inst.pnl_percent = trade.inst.pnl_percent
             /\ Val(trade'.row).pnl = trade.inst.pnl
             /\ Val(trade'.row).pnl_percent = trade.inst.pnl_percent
       /\ ~trade'.computed =>
             /\ trade'.inst.pnl = 0
             /\ trade'.inst.pnl_percent.num = 0
      ]_vars

\* a long trade closed with pnl 2.00 (+100 %) was saved again with its
\* exit_price cleared and keeps both values
C35_Witness ==
    /\ trade.pc = "saved"
    /\ trade.computed
    /\ trade.inst.exit_price = None
    /\ trade.inst.pnl = 20000
    /\ trade.inst.pnl_percent = [num |-> 1000000, den |-> 10000]
    /\ Val(trade.row).pnl = 20000

(***************************** properties of portfolio_summary **************)
RECURSIVE SumOfRows(_, _)
\* the sum of f over the set S
SumOfRows(S, f) ==
    IF S = {} THEN 0
    ELSE LET x == CHOOSE y \in S : TRUE IN f[x] + SumOfRows(S \ {x}, f)

\* the rows of the user with this symbol
RowsOf(sym) == {i \in 1..Len(summary.assets) : summary.assets[i].symbol = sym}

\* the sum of the amounts of a symbol's rows
AmountOf(sym) ==
    SumOfRows(RowsOf(sym), [i \in RowsOf(sym) |-> summary.assets[i].amount])

\* the sum of amount * purchase_price over a symbol's rows that have a price
CostOf(sym) ==
    LET priced == {i \in RowsOf(sym) : summary.assets[i].purchase_price # None}
    IN  SumOfRows(priced, [i \in priced |->
                  summary.assets[i].amount * Val(summary.assets[i].purchase_price)])

\* C36: the list sent to the valuation service has exactly one entry for each
\* symbol of the user's rows; its amount is the sum of the symbol's amounts;
\* its purchase_price, when not null, times the amount is the sum of
\* amount * purchase_price over the symbol's rows with a price; and it is
\* null exactly when that sum or the total amount is not positive.
C36_Aggregation ==
    (summary.pc = "answered" /\ summary.response.sent) =>
        LET asset_list == summary.response.asset_list
            syms == {summary.assets[i].symbol : i \in 1..Len(summary.assets)}
        IN  /\ \A sym \in syms :
                  Cardinality({i \in 1..Len(asset_list) :
                                  asset_list[i].symbol = sym}) = 1
            /\ \A i \in 1..Len(asset_list) :
                  LET e == asset_list[i] IN
                  /\ e.symbol \in syms
                  /\ e.amount = AmountOf(e.symbol)
                  /\ e.purchase_price # None =>
                        e.amount * Val(e.purchase_price).num
                            = CostOf(e.symbol) * Val(e.purchase_price).den
                  /\ e.purchase_price = None <=>
                        (CostOf(e.symbol) <= 0 \/ AmountOf(e.symbol) <= 0)

\* three rows were sent as two entries: BTC bought twice (2 at 0.03, then 2
\* with no price) is one entry of amount 4 at 0.06 / 4, ETH with amount -1
\* has no purchase price
C36_Witness ==
    /\ summary.pc = "answered"
    /\ summary.response.sent
    /\ Len(summary.assets) = 3
    /\ Len(summary.response.asset_list) = 2
    /\ summary.response.asset_list[1].symbol = "BTC"
    /\ summary.response.asset_list[1].amount = 4
    /\ summary.response.asset_list[1].purchase_price = Some([num |-> 6, den |-> 4])
    /\ Len(summary.response.asset_list[1].purchases) = 2
    /\ summary.response.asset_list[2].purchase_price = None

(***************************** properties of the migration ******************)
\* the keys of the mapping, as the script lists them
MappingKeys ==
    {<<"b", "i", "t", "c", "o", "i", "n">>,
     <<"e", "t", "h", "e", "r", "e", "u", "m">>,
     <<"s", "o", "l", "a", "n", "a">>,
     <<"c", "a", "r", "d", "a", "n", "o">>,
     <<"r", "i", "p", "p", "l", "e">>,
     <<"p", "o", "l", "k", "a", "d", "o", "t">>,
     <<"d", "o", "g", "e", "c", "o", "i", "n">>,
     <<"a", "v", "a", "l", "a", "n", "c", "h", "e", "-", "2">>,
     <<"p", "o", "l", "y", "g", "o", "n">>,
     <<"c", "h", "a", "i", "n", "l", "i", "n", "k">>,
     <<"u", "n", "i", "s", "w", "a", "p">>,
     <<"l", "i", "t", "e", "c", "o", "i", "n">>,
     <<"s", "h", "i", "b", "a", "-", "i", "n", "u">>,
     <<"t", "r", "o", "n">>,
     <<"d", "a", "i">>}

\* C37: a run gives every asset whose coin_id was a mapping key a coin_id
\* that is_binance_symbol classifies as primary, and leaves every other
\* asset's coin_id as it was; a run after the first migrates no asset and
\* leaves every coin_id as the first run left it.
C37_MigrationIdempotent ==
    [][Len(migration'.runs) = Len(migration.runs) + 1 =>
          LET before == migration.assets
              after == migration'.assets
              run == migration'.runs[Len(migration'.runs)]
          IN  /\ Len(after) = Len(before)
              /\ \A i \in 1..Len(before) :
                    IF before[i].coin_id \in MappingKeys
                    THEN is_binance_symbol(after[i].coin_id)
                    ELSE after[i].coin_id = before[i].coin_id
              /\ run.migrated =
                    Cardinality({i \in 1..Len(before) :
                                    before[i].coin_id \in MappingKeys})
              /\ Len(migration.runs) >= 1 =>
                    /\ after = before
                    /\ run.migrated = 0
      ]_vars

\* two runs over a table of two assets: the first migrated one asset (to
\* DOGEUSDT) and kept 'pepe', the second migrated none
C37_Witness ==
    /\ Len(migration.runs) = 2
    /\ migration.runs[1] = [migrated |-> 1, skipped |-> 1]
    /\ migration.runs[2] = [migrated |-> 0, skipped |-> 2]
    /\ Len(migration.assets) = 2
    /\ migration.assets[1].coin_id = <<"D", "O", "G", "E", "U", "S", "D", "T">>
    /\ migration.assets[2].coin_id = <<"p", "e", "p", "e">>

====
